---- MODULE Spec2Model ----
(***************************************************************************)
(* BrainManagerV2 (brain-manager-v2.ts): the in-memory context store and   *)
(* the propose / confirm update workflow, with the sensitive-data          *)
(* validator (security/validators.ts) that gates proposeUpdate.            *)
(*                                                                         *)
(* JavaScript objects are modelled as TLA+ records (functions on field     *)
(* names): a property whose value is undefined is a missing field.  The    *)
(* handlers never assign to a field of an object that is already stored    *)
(* (every mutation is made on a fresh JSON copy or on a fresh spread), so  *)
(* records are compared by value.  Timestamps are the millisecond value    *)
(* that new Date().toISOString() encodes and new Date(s).getTime() reads   *)
(* back.                                                                   *)
(***************************************************************************)
EXTENDS Integers, Sequences, FiniteSets, TLC

VARIABLES
  currentProject,   \* ProjectContext | null
  sessionContext,   \* SessionContext | null
  projectStack,     \* Array<{project, timestamp, mode}>
  pendingUpdates,   \* Map<string, UpdateProposal>
  projectCache,     \* Map<string, ProjectContext>
  now,              \* Date.now()
  uuidCount,        \* number of ids randomUUID() has handed out
  lastCall,         \* the last call made on the manager: its name and what it returned
  calls,            \* number of calls made on the manager
  secureSessionToken,  \* string | null; null is written "null", which is no token
  sessions,         \* secureConfig.sessions: Map<string, SecureSession>
  creatorSessions,  \* projectCreator.secureConfig.sessions
  tokenCount        \* number of tokens crypto.randomBytes() has handed out

\* the fields of the secure configuration
secureVars == <<secureSessionToken, sessions, creatorSessions, tokenCount>>

vars == <<currentProject, sessionContext, projectStack, pendingUpdates,
          projectCache, now, uuidCount, lastCall, calls, secureVars>>

(***************************************************************************)
(* Bounds of the model.                                                    *)
(***************************************************************************)
MaxProposals == 2      \* proposeUpdate calls that get as far as randomUUID()
MaxStack == 1          \* depth of projectStack
MaxTicks == 1          \* clock advances
MaxCalls == 5          \* calls made on the manager

null == [isNull |-> TRUE]
undefined == "undefined"
\* the object {}
EmptyObject == [k \in {} |-> ""]

FiveMinutes == 5 * 60 * 1000
TickMs == FiveMinutes + 1

Has(o, k) == k \in DOMAIN o
Get(o, k) == IF k \in DOMAIN o THEN o[k] ELSE undefined
\* { ...a, ...b }
Spread(a, b) == [k \in (DOMAIN a) \cup (DOMAIN b) |-> IF k \in DOMAIN b THEN b[k] ELSE a[k]]
Last(s) == s[Len(s)]
Front(s) == SubSeq(s, 1, Len(s) - 1)
\* Array.prototype.includes
Includes(arr, x) == \E i \in 1..Len(arr) : arr[i] = x
\* Array.prototype.slice(0, n) and slice(-n)
SliceHead(arr, n) == SubSeq(arr, 1, IF Len(arr) < n THEN Len(arr) ELSE n)
SliceTail(arr, n) == SubSeq(arr, IF Len(arr) < n THEN 1 ELSE Len(arr) - n + 1, Len(arr))

(***************************************************************************)
(* security/validators.ts                                                  *)
(***************************************************************************)
SENSITIVE_FIELD_NAMES ==
  << "password", "passwd", "pwd",
     "secret", "api_key", "apikey", "api-key",
     "access_key", "accesskey", "access-key",
     "private_key", "privatekey", "private-key",
     "auth_token", "authtoken", "auth-token",
     "oauth_token", "oauthtoken", "oauth-token",
     "bearer_token", "bearertoken", "bearer-token",
     "client_secret", "clientsecret", "client-secret",
     "encryption_key", "encryptionkey", "encryption-key",
     "signing_key", "signingkey", "signing-key",
     "ssh_key", "sshkey", "ssh-key",
     "certificate", "cert",
     "credentials", "creds" >>

UpperCase == <<"A","B","C","D","E","F","G","H","I","J","K","L","M",
               "N","O","P","Q","R","S","T","U","V","W","X","Y","Z">>
LowerCase == <<"a","b","c","d","e","f","g","h","i","j","k","l","m",
               "n","o","p","q","r","s","t","u","v","w","x","y","z">>
Digits == {"0","1","2","3","4","5","6","7","8","9"}
\* the class \w
WordChars == {UpperCase[i] : i \in 1..26} \cup {LowerCase[i] : i \in 1..26} \cup Digits \cup {"_"}

CharAt(s, i) == SubSeq(s, i, i)
LowerChar(c) == IF \E i \in 1..26 : UpperCase[i] = c
                THEN LowerCase[CHOOSE i \in 1..26 : UpperCase[i] = c]
                ELSE c
RECURSIVE toLowerCase(_)
toLowerCase(s) == IF Len(s) = 0 THEN s
                  ELSE LowerChar(CharAt(s, 1)) \o toLowerCase(SubSeq(s, 2, Len(s)))
\* String.prototype.includes
StrIncludes(s, sub) ==
  \E i \in 1..(Len(s) - Len(sub) + 1) : SubSeq(s, i, i + Len(sub) - 1) = sub

IsWordAt(s, i) == i >= 1 /\ i <= Len(s) /\ CharAt(s, i) \in WordChars
\* \b in front of position i
WordBoundary(s, i) == IsWordAt(s, i - 1) # IsWordAt(s, i)

\* The signatures /\bsk[-_][\w]{20,}/, pk, api, key, token of SENSITIVE_PATTERNS.
\* The other signatures need an assignment "name = <20 chars>", a Bearer
\* token, a connection URL, an AKIA / AIza prefix, a run of 40 characters or
\* a UUID; no string of the vocabulary below has any of these shapes.
KeyPrefixes == <<"sk", "pk", "api", "key", "token">>
MinKeyLen == 20
MatchesKeyPrefix(s, prefix) ==
  \E i \in 1..(Len(s) - Len(prefix) - MinKeyLen) :
     /\ WordBoundary(s, i)
     /\ SubSeq(s, i, i + Len(prefix) - 1) = prefix
     /\ CharAt(s, i + Len(prefix)) \in {"-", "_"}
     /\ \A j \in 1..MinKeyLen : IsWordAt(s, i + Len(prefix) + j)

\* errors pushed by the key-name check
KeyErrors(key) ==
  IF key = undefined THEN <<>>
  ELSE SelectSeq(SENSITIVE_FIELD_NAMES, LAMBDA f : StrIncludes(toLowerCase(key), f))

\* errors pushed by the pattern check on valueStr
PatternErrors(valueStr) ==
  SelectSeq(KeyPrefixes, LAMBDA p : MatchesKeyPrefix(valueStr, p))

\* JSON.stringify of a string, of an array of strings, and of an update
\* payload (an object whose values are strings or arrays of strings)
Quote(s) == "\"" \o s \o "\""
RECURSIVE JoinQuoted(_)
JoinQuoted(arr) == IF Len(arr) = 0 THEN ""
                   ELSE IF Len(arr) = 1 THEN Quote(arr[1])
                   ELSE Quote(arr[1]) \o "," \o JoinQuoted(Tail(arr))
StringifyArray(arr) == "[" \o JoinQuoted(arr) \o "]"

\* keys whose value is an array; every other key of a payload holds a string
ArrayKeys == {"completedTasks", "newTasks", "artifacts"}
\* the order in which the keys of a payload were inserted
KeyOrder == <<"completedTasks", "newTasks", "currentFocus", "decision", "rationale",
              "impact", "title", "description", "artifacts", "insight", "source", "pwd",
              "projectName">>
KeysOf(obj) == SelectSeq(KeyOrder, LAMBDA k : k \in DOMAIN obj)
StringifyValue(obj, k) == IF k \in ArrayKeys THEN StringifyArray(obj[k]) ELSE Quote(obj[k])
RECURSIVE JoinEntries(_, _)
JoinEntries(obj, keys) ==
  IF Len(keys) = 0 THEN ""
  ELSE Quote(keys[1]) \o ":" \o StringifyValue(obj, keys[1])
       \o (IF Len(keys) = 1 THEN "" ELSE "," \o JoinEntries(obj, Tail(keys)))
StringifyObject(obj) == "{" \o JoinEntries(obj, KeysOf(obj)) \o "}"

RECURSIVE ConcatAll(_)
ConcatAll(seqs) == IF Len(seqs) = 0 THEN <<>> ELSE seqs[1] \o ConcatAll(Tail(seqs))

\* validateForSensitiveData(value, key) for a string value
validateString(value, key) ==
  LET errors == KeyErrors(key) \o PatternErrors(value)
  IN  [isValid |-> Len(errors) = 0, errors |-> errors]

\* validateForSensitiveData(value, key) for an array of strings: the
\* entries are validated under the keys "0", "1", ...
validateArray(value, key) ==
  LET sub == [i \in 1..Len(value) |-> validateString(value[i], ToString(i - 1))]
      errors == KeyErrors(key) \o PatternErrors(StringifyArray(value))
                \o ConcatAll([i \in 1..Len(value) |-> sub[i].errors])
  IN  [isValid |-> Len(errors) = 0, errors |-> errors]

\* validateForSensitiveData(value) for an update payload
validateForSensitiveData(value) ==
  LET keys == KeysOf(value)
      sub == [i \in 1..Len(keys) |->
                IF keys[i] \in ArrayKeys THEN validateArray(value[keys[i]], keys[i])
                ELSE validateString(value[keys[i]], keys[i])]
      errors == PatternErrors(StringifyObject(value))
                \o ConcatAll([i \in 1..Len(keys) |-> sub[i].errors])
  IN  [isValid |-> Len(errors) = 0, errors |-> errors]

(***************************************************************************)
(* The values the calls of the model are made with.                        *)
(***************************************************************************)
ProjectNames == {"A", "B"}
Secret == "sk-ABCDEFGHIJKLMNOPQRST"

\* update payloads
Payloads ==
  { EmptyObject,
    [completedTasks |-> <<"t1">>],
    [newTasks |-> <<"t1">>, currentFocus |-> "f1"],
    [completedTasks |-> <<"t1">>, newTasks |-> <<"t1">>],
    [newTasks |-> <<Secret>>],
    [currentFocus |-> "f1", pwd |-> "x"],
    [decision |-> "d1", rationale |-> "r1", impact |-> "i1"],
    [title |-> "m1", artifacts |-> <<"a1">>],
    [insight |-> "n1"] }

\* validateForSensitiveData(updates) for every payload of the model
ValidationOf == [u \in Payloads |-> validateForSensitiveData(u)]

\* the payloads that validateForSensitiveData refuses
SensitivePayloads == {u \in Payloads : ~ValidationOf[u].isValid}

UpdateTypes == {"progress", "decision", "milestone", "insight"}
\* with a type that the switch of proposeUpdate has no case for
AnyUpdateTypes == UpdateTypes \cup {"note"}

\* the update types a payload is proposed under: the type its fields belong
\* to; the payloads that fail validation under every type and under a type
\* that proposeUpdate does not know
TypesOf(updates) ==
  IF ~ValidationOf[updates].isValid THEN AnyUpdateTypes
  ELSE IF Has(updates, "decision") THEN {"decision"}
  ELSE IF Has(updates, "title") THEN {"milestone"}
  ELSE IF Has(updates, "insight") THEN {"insight"}
  ELSE {"progress"}

\* a project record as brain:state_get returns it (the existingProjectData
\* argument of switchProject)
StoredProject(name) ==
  [projectName |-> name,
   status |-> "active",
   created |-> 0,
   lastModified |-> 0,
   summary |-> "Stored project",
   currentFocus |-> "f0",
   openTasks |-> <<"t1", "t2", "t3", "t4", "t5", "t6">>,
   completedTasks |-> <<"t0">>,
   keyDecisions |-> <<[timestamp |-> 0, decision |-> "d0", rationale |-> "r0"],
                      [timestamp |-> 0, decision |-> "d00", rationale |-> "r0"],
                      [timestamp |-> 0, decision |-> "d000", rationale |-> "r0"]>>,
   milestones |-> <<>>,
   keyFiles |-> <<"README.md">>]

\* the projectName argument of proposeUpdate
TargetNames == {undefined, "B"}

\* the template and existingProjectData arguments of switchProject
Templates == {undefined}
ExistingProjectData == {null, StoredProject("A")}

\* the modifications argument of confirmUpdate
Modifications ==
  { null,
    [currentFocus |-> "f2"] }

(***************************************************************************)
(* brain-instructions.ts                                                   *)
(***************************************************************************)
stateGet(category, key) ==
  [tool |-> "brain:state_get",
   args |-> [category |-> category, key |-> key],
   description |-> "Get " \o category \o "/" \o key \o " from state"]

stateSet(category, key, value) ==
  [tool |-> "brain:state_set",
   args |-> [category |-> category, key |-> key, value |-> value],
   description |-> "Set " \o category \o "/" \o key \o " in state"]

(***************************************************************************)
(* brain-manager-v2.ts                                                     *)
(***************************************************************************)
\* JSON.parse(JSON.stringify(v)): a structural copy.  It drops the
\* properties whose value is undefined, which the records here do not hold,
\* and leaves strings, numbers, arrays and plain objects as they are.
JSONClone(v) == v

createProjectFromTemplate(projectName, template) ==
  LET baseProject ==
        [projectName |-> projectName,
         status |-> "active",
         created |-> now,
         lastModified |-> now,
         summary |-> "",
         currentFocus |-> "",
         openTasks |-> <<>>,
         completedTasks |-> <<>>,
         keyDecisions |-> <<>>,
         milestones |-> <<>>,
         keyFiles |-> <<>>]
  IN  CASE template = "software" ->
             Spread(baseProject,
                    [summary |-> "Software development project",
                     metadata |-> [techStack |-> <<>>,
                                   architecture |-> [type |-> "", components |-> <<>>],
                                   testingStrategy |-> ""]])
        [] template = "research" ->
             Spread(baseProject,
                    [summary |-> "Research project",
                     metadata |-> [researchQuestions |-> <<>>,
                                   hypotheses |-> <<>>,
                                   methodology |-> "",
                                   dataSources |-> <<>>]])
        [] template = "ml" ->
             Spread(baseProject,
                    [summary |-> "Machine learning project",
                     metadata |-> [problemType |-> "",
                                   datasets |-> <<>>,
                                   models |-> <<>>,
                                   metrics |-> EmptyObject]])
        [] template = "writing" ->
             Spread(baseProject,
                    [summary |-> "Writing project",
                     metadata |-> [type |-> "",
                                   outline |-> <<>>,
                                   wordCount |-> 0,
                                   targetAudience |-> ""]])
        [] OTHER -> baseProject

\* Map.prototype.get on projectCache and pendingUpdates
MapGet(map, key) == IF key \in DOMAIN map THEN map[key] ELSE null
\* Map.prototype.set
MapSet(map, key, value) == [k \in (DOMAIN map) \cup {key} |-> IF k = key THEN value ELSE map[k]]
\* Map.prototype.delete
MapDelete(map, key) == [k \in (DOMAIN map) \ {key} |-> map[k]]

\* randomUUID(): the n-th id handed out; no id is handed out twice
randomUUID(n) == "uuid-" \o ToString(n)

RECURSIVE Join(_, _)
Join(arr, sep) == IF Len(arr) = 0 THEN ""
                  ELSE IF Len(arr) = 1 THEN arr[1]
                  ELSE arr[1] \o sep \o Join(Tail(arr), sep)

\* proposeUpdate: the project the proposal is made for
TargetProject(projectName) ==
  IF projectName # undefined
  THEN (IF MapGet(projectCache, projectName) # null
        THEN MapGet(projectCache, projectName)
        ELSE currentProject)
  ELSE currentProject

\* a 'progress' case that appends the completed tasks and leaves them open
ApplyProgressKeepsOpen(ctx, updates) ==
  LET c0 == [ctx EXCEPT !.lastModified = now]
      c1 == IF Has(updates, "completedTasks")
            THEN [c0 EXCEPT
                    !.completedTasks = c0.completedTasks \o updates.completedTasks]
            ELSE c0
      c2 == IF Has(updates, "newTasks")
            THEN [c1 EXCEPT !.openTasks = c1.openTasks \o updates.newTasks]
            ELSE c1
      c3 == IF Has(updates, "currentFocus") /\ updates.currentFocus # ""
            THEN [c2 EXCEPT !.currentFocus = updates.currentFocus]
            ELSE c2
  IN  [context |-> c3,
       changesMade |->
         (IF Has(updates, "completedTasks")
          THEN <<"Completed " \o ToString(Len(updates.completedTasks)) \o " tasks">>
          ELSE <<>>)
         \o (IF Has(updates, "newTasks")
             THEN <<"Added " \o ToString(Len(updates.newTasks)) \o " new tasks">>
             ELSE <<>>)
         \o (IF Has(updates, "currentFocus") /\ updates.currentFocus # ""
             THEN <<"Changed focus to: " \o updates.currentFocus>>
             ELSE <<>>)]

\* proposeUpdate, case 'progress'
ApplyProgress(ctx, updates) ==
  LET c0 == [ctx EXCEPT !.lastModified = now]
      c1 == IF Has(updates, "completedTasks")
            THEN [c0 EXCEPT
                    !.openTasks = SelectSeq(c0.openTasks,
                                    LAMBDA task : ~Includes(updates.completedTasks, task)),
                    !.completedTasks = c0.completedTasks \o updates.completedTasks]
            ELSE c0
      c2 == IF Has(updates, "newTasks")
            THEN [c1 EXCEPT !.openTasks = c1.openTasks \o updates.newTasks]
            ELSE c1
      c3 == IF Has(updates, "currentFocus") /\ updates.currentFocus # ""
            THEN [c2 EXCEPT !.currentFocus = updates.currentFocus]
            ELSE c2
  IN  [context |-> c3,
       changesMade |->
         (IF Has(updates, "completedTasks")
          THEN <<"Completed " \o ToString(Len(updates.completedTasks)) \o " tasks">>
          ELSE <<>>)
         \o (IF Has(updates, "newTasks")
             THEN <<"Added " \o ToString(Len(updates.newTasks)) \o " new tasks">>
             ELSE <<>>)
         \o (IF Has(updates, "currentFocus") /\ updates.currentFocus # ""
             THEN <<"Changed focus to: " \o updates.currentFocus>>
             ELSE <<>>)]

\* proposeUpdate, case 'decision'
ApplyDecision(ctx, updates) ==
  LET decision ==
        Spread(Spread([timestamp |-> now,
                       rationale |-> IF Has(updates, "rationale") /\ updates.rationale # ""
                                     THEN updates.rationale
                                     ELSE "No rationale provided"],
                      IF Has(updates, "decision") THEN [decision |-> updates.decision] ELSE EmptyObject),
               IF Has(updates, "impact") THEN [impact |-> updates.impact] ELSE EmptyObject)
  IN  [context |-> [ctx EXCEPT !.keyDecisions = Append(ctx.keyDecisions, decision)],
       changesMade |-> <<"Recorded decision: " \o Get(decision, "decision")>>]

\* proposeUpdate, case 'milestone'
ApplyMilestone(ctx, updates) ==
  LET milestone ==
        Spread([timestamp |-> now,
                description |-> IF Has(updates, "description") THEN updates.description ELSE "",
                artifacts |-> IF Has(updates, "artifacts") THEN updates.artifacts ELSE <<>>],
               IF Has(updates, "title") THEN [title |-> updates.title] ELSE EmptyObject)
  IN  [context |-> [ctx EXCEPT !.milestones = Append(ctx.milestones, milestone)],
       changesMade |-> <<"Added milestone: " \o Get(milestone, "title")>>]

\* proposeUpdate, case 'insight'
ApplyInsight(ctx, updates) ==
  LET metadata == IF Has(ctx, "metadata") THEN ctx.metadata ELSE EmptyObject
      insights == IF Has(metadata, "insights") THEN metadata.insights ELSE <<>>
      entry == Spread([timestamp |-> now,
                       source |-> IF Has(updates, "source") /\ updates.source # ""
                                  THEN updates.source
                                  ELSE "observation"],
                      IF Has(updates, "insight") THEN [insight |-> updates.insight] ELSE EmptyObject)
  IN  [context |-> Spread(ctx, [metadata |-> Spread(metadata, [insights |-> Append(insights, entry)])]),
       changesMade |-> <<"Recorded insight: " \o Get(updates, "insight")>>]

\* proposeUpdate: the switch on updateType, applied to the copy of the project
ApplyUpdate(ctx, updateType, updates) ==
  CASE updateType = "progress" -> ApplyProgress(ctx, updates)
    [] updateType = "decision" -> ApplyDecision(ctx, updates)
    [] updateType = "milestone" -> ApplyMilestone(ctx, updates)
    [] updateType = "insight" -> ApplyInsight(ctx, updates)
    [] OTHER -> [context |-> ctx, changesMade |-> <<>>]

\* the prompt without its two pictographs
generateConfirmationPrompt(updateType, changes, context) ==
  "Proposed " \o updateType \o " update for '" \o context.projectName \o "':\n\n"
  \o Join([i \in 1..Len(changes) |-> "  - " \o changes[i] \o "\n"], "")
  \o "\nConfirm these changes?"

\* a clean-up loop that drops nothing
SweepPendingKeepsAll(pending) == pending

\* proposeUpdate: the proposals that the clean-up loop leaves in the table
SweepPending(pending) ==
  LET fiveMinutesAgo == now - FiveMinutes
  IN  [id \in {i \in DOMAIN pending : ~(pending[i].timestamp < fiveMinutesAgo)} |-> pending[id]]

\* a proposeUpdate that applies the update to the stored record, not to a copy
StoreProposalLive(proposal) ==
  /\ pendingUpdates' = SweepPending(MapSet(pendingUpdates, proposal.id, proposal))
  /\ uuidCount' = uuidCount + 1
  /\ currentProject' = IF currentProject # null
                           /\ currentProject.projectName = proposal.projectName
                        THEN proposal.proposedContext
                        ELSE currentProject
  /\ projectCache' = IF proposal.projectName \in DOMAIN projectCache
                      THEN MapSet(projectCache, proposal.projectName, proposal.proposedContext)
                      ELSE projectCache
  /\ UNCHANGED <<sessionContext, projectStack, now, secureVars>>

\* proposeUpdate: the proposal is stored, the table is swept
StoreProposal(proposal) ==
  /\ pendingUpdates' = SweepPending(MapSet(pendingUpdates, proposal.id, proposal))
  /\ uuidCount' = uuidCount + 1
  /\ UNCHANGED <<currentProject, sessionContext, projectStack, projectCache, now, secureVars>>

\* a proposeUpdate that only logs what the validator reports
ValidationOnlyWarns(updates) == FALSE

\* proposeUpdate: the validation of the raw payload aborts the call
ValidationFails(updates) == ~ValidationOf[updates].isValid

\* a missing target reported by a result
NoProjectLoadedReturned ==
  [outcome |-> "return",
   result |-> [success |-> FALSE,
               message |-> "No project specified or loaded. Load a project first with loadSessionData()"]]

\* proposeUpdate: what the call gives when no target project is found
NoProjectLoaded ==
  [outcome |-> "throw",
   error |-> "No project specified or loaded. Load a project first with loadSessionData()"]

ProposeUpdate(updateType, updates, projectName) ==
  LET call == [op |-> "proposeUpdate"]
      project == TargetProject(projectName)
  IN  IF ValidationFails(updates)
      THEN /\ lastCall' = Spread(call, [outcome |-> "throw",
                                        error |-> "Security validation failed"])
           /\ UNCHANGED <<currentProject, sessionContext, projectStack, pendingUpdates,
                          projectCache, now, uuidCount, secureVars>>
      ELSE IF project = null
      THEN /\ lastCall' = Spread(call, NoProjectLoaded)
           /\ UNCHANGED <<currentProject, sessionContext, projectStack, pendingUpdates,
                          projectCache, now, uuidCount, secureVars>>
      ELSE LET applied == ApplyUpdate(JSONClone(project), updateType, updates)
               proposal == [id |-> randomUUID(uuidCount + 1),
                            type |-> updateType,
                            timestamp |-> now,
                            projectName |-> project.projectName,
                            changesSummary |-> Join(applied.changesMade, " | "),
                            proposedContext |-> applied.context,
                            originalUpdates |-> updates,
                            confirmationPrompt |->
                              generateConfirmationPrompt(updateType, applied.changesMade,
                                                         applied.context)]
           IN  /\ uuidCount < MaxProposals
               /\ StoreProposal(proposal)
               /\ lastCall' = Spread(call, [outcome |-> "return", result |-> proposal])

\* a spread in the other order: { ...modifications, ...finalContext }
FinalContextUnderProposal(proposal, modifications) ==
  IF modifications # null
  THEN Spread(modifications, proposal.proposedContext)
  ELSE proposal.proposedContext

\* confirmUpdate: the record that is committed
FinalContext(proposal, modifications) ==
  IF modifications # null
  THEN Spread(proposal.proposedContext, modifications)
  ELSE proposal.proposedContext

\* a session context that carries the whole lists of the record
SessionUpdateWholeLists(proposal, finalContext) ==
  [timestamp |-> now,
   lastProject |-> proposal.projectName,
   lastActivity |-> proposal.changesSummary,
   conversationMode |-> "project_management",
   openTasks |-> finalContext.openTasks,
   keyDecisions |-> [i \in 1..Len(finalContext.keyDecisions) |->
                       Get(finalContext.keyDecisions[i], "decision")]]

\* confirmUpdate: the session context derived from the committed record
SessionUpdate(proposal, finalContext) ==
  [timestamp |-> now,
   lastProject |-> proposal.projectName,
   lastActivity |-> proposal.changesSummary,
   conversationMode |-> "project_management",
   openTasks |-> SliceHead(finalContext.openTasks, 5),
   keyDecisions |-> LET recent == SliceTail(finalContext.keyDecisions, 3)
                    IN  [i \in 1..Len(recent) |-> Get(recent[i], "decision")]]

\* instructions that save the session context before the project record
ConfirmInstructionsSessionFirst(proposal, finalContext, sessionUpdate) ==
  << stateSet("system", "last_session_context", sessionUpdate),
     stateSet("project", proposal.projectName, finalContext) >>

\* confirmUpdate: the instructions that persist the commit
ConfirmInstructions(proposal, finalContext, sessionUpdate) ==
  << stateSet("project", proposal.projectName, finalContext),
     stateSet("system", "last_session_context", sessionUpdate) >>

\* a commit that leaves the proposal in the pending table
CommitUpdateKeepsPending(updateId, proposal, finalContext, sessionUpdate) ==
  /\ projectCache' = MapSet(projectCache, proposal.projectName, finalContext)
  /\ currentProject' = finalContext
  /\ sessionContext' = sessionUpdate
  /\ UNCHANGED <<pendingUpdates, projectStack, now, uuidCount, secureVars>>

\* confirmUpdate: the commit to the local store
CommitUpdate(updateId, proposal, finalContext, sessionUpdate) ==
  /\ projectCache' = MapSet(projectCache, proposal.projectName, finalContext)
  /\ currentProject' = finalContext
  /\ sessionContext' = sessionUpdate
  /\ pendingUpdates' = MapDelete(pendingUpdates, updateId)
  /\ UNCHANGED <<projectStack, now, uuidCount, secureVars>>

ConfirmUpdate(updateId, modifications) ==
  LET call == [op |-> "confirmUpdate", updateId |-> updateId]
      proposal == MapGet(pendingUpdates, updateId)
  IN  IF proposal = null
      THEN /\ lastCall' = Spread(call,
                 [outcome |-> "return",
                  result |-> [success |-> FALSE,
                              message |-> "Update proposal not found or expired",
                              instructions |-> <<>>]])
           /\ UNCHANGED <<currentProject, sessionContext, projectStack, pendingUpdates,
                          projectCache, now, uuidCount, secureVars>>
      ELSE LET finalContext == FinalContext(proposal, modifications)
               sessionUpdate == SessionUpdate(proposal, finalContext)
               instructions == ConfirmInstructions(proposal, finalContext, sessionUpdate)
           IN  IF ~Has(finalContext, "openTasks") \/ ~Has(finalContext, "keyDecisions")
               THEN \* finalContext.openTasks.slice(0, 5) throws a TypeError
                    /\ projectCache' = MapSet(projectCache, proposal.projectName, finalContext)
                    /\ currentProject' = finalContext
                    /\ UNCHANGED <<sessionContext, pendingUpdates, projectStack, now,
                                   uuidCount, secureVars>>
                    /\ lastCall' = Spread(call,
                          [outcome |-> "throw",
                           error |-> "Cannot read properties of undefined (reading 'slice')"])
               ELSE /\ CommitUpdate(updateId, proposal, finalContext, sessionUpdate)
                    /\ lastCall' = Spread(call,
                          [outcome |-> "return",
                           result |-> [success |-> TRUE,
                                       message |-> "Successfully applied " \o proposal.type
                                                   \o " update to " \o proposal.projectName,
                                       instructions |-> instructions]])

\* a switch that saves nothing on the stack
PushNothing == projectStack

\* switchProject: the stack after "save current project to stack if exists"
PushCurrent ==
  IF currentProject # null
  THEN Append(projectStack,
              [project |-> JSONClone(currentProject),
               timestamp |-> now,
               mode |-> IF sessionContext # null /\ sessionContext.conversationMode # ""
                        THEN sessionContext.conversationMode
                        ELSE "unknown"])
  ELSE projectStack

SwitchProject(projectName, createIfNotExists, template, existingProjectData) ==
  LET call == [op |-> "switchProject"]
      cached == MapGet(projectCache, projectName)
      found == IF cached # null THEN cached ELSE existingProjectData
  IN  /\ currentProject # null => Len(projectStack) < MaxStack
      /\ projectStack' = PushCurrent
      /\ UNCHANGED <<sessionContext, pendingUpdates, now, uuidCount, secureVars>>
      /\ IF found = null /\ ~createIfNotExists
         THEN /\ lastCall' = Spread(call,
                    [outcome |-> "return",
                     result |-> [success |-> FALSE,
                                 message |-> "Project '" \o projectName
                                             \o "' not in cache. Execute the instruction to load it.",
                                 instructions |-> <<stateGet("project", projectName)>>]])
              /\ UNCHANGED <<currentProject, projectCache>>
         ELSE LET project == IF found = null
                             THEN createProjectFromTemplate(projectName, template)
                             ELSE found
                  instructions == IF found = null
                                  THEN <<stateSet("project", projectName, project)>>
                                  ELSE <<>>
              IN  /\ currentProject' = project
                  /\ projectCache' = MapSet(projectCache, projectName, project)
                  /\ lastCall' = Spread(call,
                        [outcome |-> "return",
                         result |-> [success |-> TRUE,
                                     project |-> project,
                                     message |-> "Switched to project: " \o projectName,
                                     instructions |-> instructions]])

\* an empty stack reported by an exception
NoPreviousProjectThrown ==
  [outcome |-> "throw", error |-> "No previous project in stack"]

\* returnToPrevious: what the call gives on an empty stack
NoPreviousProject ==
  [outcome |-> "return",
   result |-> [success |-> FALSE, message |-> "No previous project in stack"]]

\* a return that makes the cached record of the popped project current
ReturnToCached ==
  LET call == [op |-> "returnToPrevious"]
  IN  IF Len(projectStack) = 0
      THEN /\ lastCall' = Spread(call, NoPreviousProject)
           /\ UNCHANGED <<currentProject, sessionContext, projectStack, pendingUpdates,
                          projectCache, now, uuidCount, secureVars>>
      ELSE LET previous == Last(projectStack)
           IN  /\ projectStack' = Front(projectStack)
               /\ currentProject' = MapGet(projectCache, previous.project.projectName)
               /\ UNCHANGED projectCache
               /\ UNCHANGED <<sessionContext, pendingUpdates, now, uuidCount, secureVars>>
               /\ lastCall' = Spread(call,
                     [outcome |-> "return",
                      result |-> [success |-> TRUE,
                                  project |-> previous.project,
                                  message |-> "Returned to project: "
                                              \o previous.project.projectName
                                              \o " (saved at " \o ToString(previous.timestamp)
                                              \o ")"]])

ReturnToPrevious ==
  LET call == [op |-> "returnToPrevious"]
  IN  IF Len(projectStack) = 0
      THEN /\ lastCall' = Spread(call, NoPreviousProject)
           /\ UNCHANGED <<currentProject, sessionContext, projectStack, pendingUpdates,
                          projectCache, now, uuidCount, secureVars>>
      ELSE LET previous == Last(projectStack)
           IN  /\ projectStack' = Front(projectStack)
               /\ currentProject' = previous.project
               /\ projectCache' = MapSet(projectCache, previous.project.projectName,
                                         previous.project)
               /\ UNCHANGED <<sessionContext, pendingUpdates, now, uuidCount, secureVars>>
               /\ lastCall' = Spread(call,
                     [outcome |-> "return",
                      result |-> [success |-> TRUE,
                                  project |-> previous.project,
                                  message |-> "Returned to project: "
                                              \o previous.project.projectName
                                              \o " (saved at " \o ToString(previous.timestamp)
                                              \o ")"]])

\* time passes between two calls
Tick ==
  /\ now + TickMs <= MaxTicks * TickMs
  /\ now' = now + TickMs
  /\ lastCall' = [op |-> "tick"]
  /\ UNCHANGED <<currentProject, sessionContext, projectStack, pendingUpdates,
                 projectCache, uuidCount, calls, secureVars>>

\* the ids a caller can pass to confirmUpdate: those proposeUpdate has
\* returned, and one that it has not
KnownIds == {randomUUID(n) : n \in 1..uuidCount} \cup {"fake-id"}

Init ==
  /\ currentProject = null
  /\ sessionContext = null
  /\ projectStack = <<>>
  /\ pendingUpdates = EmptyObject
  /\ projectCache = EmptyObject
  /\ now = 0
  /\ uuidCount = 0
  /\ lastCall = [op |-> "constructor"]
  /\ calls = 0
  /\ secureSessionToken = "null"
  /\ sessions = EmptyObject
  /\ creatorSessions = EmptyObject
  /\ tokenCount = 0

\* one more call is made on the manager
Call == calls < MaxCalls /\ calls' = calls + 1

Next ==
  \/ \E updates \in Payloads, projectName \in TargetNames :
       \E updateType \in TypesOf(updates) :
          Call /\ ProposeUpdate(updateType, updates, projectName)
  \/ \E updateId \in KnownIds, modifications \in Modifications :
       Call /\ ConfirmUpdate(updateId, modifications)
  \/ \E projectName \in ProjectNames, createIfNotExists \in BOOLEAN,
        template \in Templates, existingProjectData \in ExistingProjectData :
       Call /\ SwitchProject(projectName, createIfNotExists, template, existingProjectData)
  \/ Call /\ ReturnToPrevious
  \/ Tick

Spec == Init /\ [][Next]_vars

(***************************************************************************)
(* The propose / confirm workflow on a finer clock: the calls are made at  *)
(* the instants around the age at which the clean-up loop of proposeUpdate *)
(* drops a proposal.                                                       *)
(***************************************************************************)
SweepInstants == {FiveMinutes - 1, FiveMinutes, FiveMinutes + 1}

\* time passes until one of the instants
TickTo ==
  /\ \E instant \in SweepInstants : instant > now /\ now' = instant
  /\ lastCall' = [op |-> "tick"]
  /\ UNCHANGED <<currentProject, sessionContext, projectStack, pendingUpdates,
                 projectCache, uuidCount, calls, secureVars>>

\* the payloads proposed on the finer clock
SweepPayloads ==
  { [newTasks |-> <<"t1">>, currentFocus |-> "f1"],
    [decision |-> "d1", rationale |-> "r1", impact |-> "i1"] }

SweepNext ==
  \/ \E updates \in SweepPayloads :
       \E updateType \in TypesOf(updates) :
          Call /\ ProposeUpdate(updateType, updates, undefined)
  \/ \E updateId \in KnownIds :
       Call /\ ConfirmUpdate(updateId, null)
  \/ \E projectName \in ProjectNames :
       Call /\ SwitchProject(projectName, TRUE, undefined, null)
  \/ TickTo

SweepSpec == Init /\ [][SweepNext]_vars

(***************************************************************************)
(* template-manager.ts                                                     *)
(***************************************************************************)
\* the map filled by initializeDefaultTemplates
templates ==
  [software |->
     [name |-> "Software Development",
      description |-> "Template for software development projects",
      defaultStatus |-> "planning",
      structure |->
        [metadata |-> [techStack |-> <<>>,
                       architecture |-> [type |-> "", components |-> <<>>,
                                         databases |-> <<>>, apis |-> <<>>],
                       testingStrategy |-> "",
                       deploymentTarget |-> "",
                       repository |-> "",
                       cicd |-> FALSE],
         defaultTasks |-> <<"Set up project repository",
                            "Define architecture",
                            "Create development environment",
                            "Set up CI/CD pipeline">>,
         suggestedMilestones |-> <<"Project setup complete",
                                   "Core functionality implemented",
                                   "Testing framework established",
                                   "First deployment">>]],
   research |->
     [name |-> "Research Project",
      description |-> "Template for research and investigation projects",
      defaultStatus |-> "exploration",
      structure |->
        [metadata |-> [researchQuestions |-> <<>>,
                       hypotheses |-> <<>>,
                       methodology |-> "",
                       dataSources |-> <<>>,
                       literatureReview |-> <<>>,
                       findings |-> <<>>,
                       conclusions |-> <<>>],
         defaultTasks |-> <<"Define research questions",
                            "Literature review",
                            "Develop methodology",
                            "Collect initial data">>,
         suggestedMilestones |-> <<"Research questions defined",
                                   "Literature review complete",
                                   "Data collection started",
                                   "Initial findings documented">>]],
   ml |->
     [name |-> "Machine Learning",
      description |-> "Template for ML/AI projects",
      defaultStatus |-> "data_collection",
      structure |->
        [metadata |-> [problemType |-> "",
                       datasets |-> <<>>,
                       features |-> <<>>,
                       models |-> <<>>,
                       experiments |-> <<>>,
                       metrics |-> [baseline |-> EmptyObject,
                                    current |-> EmptyObject,
                                    target |-> EmptyObject],
                       bestModel |-> [name |-> "",
                                      hyperparameters |-> EmptyObject,
                                      performance |-> EmptyObject]],
         defaultTasks |-> <<"Define problem and success metrics",
                            "Collect and prepare dataset",
                            "Exploratory data analysis",
                            "Feature engineering",
                            "Establish baseline model">>,
         suggestedMilestones |-> <<"Dataset prepared",
                                   "Baseline established",
                                   "First model trained",
                                   "Target metrics achieved">>]],
   writing |->
     [name |-> "Writing Project",
      description |-> "Template for writing and documentation projects",
      defaultStatus |-> "outlining",
      structure |->
        [metadata |-> [type |-> "",
                       targetAudience |-> "",
                       tone |-> "",
                       outline |-> <<>>,
                       chapters |-> <<>>,
                       sections |-> <<>>,
                       wordCount |-> 0,
                       targetWordCount |-> 0,
                       keyThemes |-> <<>>,
                       researchNotes |-> <<>>,
                       references |-> <<>>],
         defaultTasks |-> <<"Define target audience and tone",
                            "Create outline",
                            "Research key topics",
                            "Write first draft">>,
         suggestedMilestones |-> <<"Outline complete",
                                   "First chapter/section drafted",
                                   "50% complete",
                                   "First draft complete">>]],
   custom |->
     [name |-> "Custom Project",
      description |-> "Blank template for custom project types",
      defaultStatus |-> "active",
      structure |-> [metadata |-> EmptyObject,
                     defaultTasks |-> <<>>,
                     suggestedMilestones |-> <<>>]]]

\* a record built like that of applyTemplate, with no task of the template
applyTemplateWithoutTasks(templateName, projectName, customizations) ==
  LET template == templates[templateName]
      given == IF customizations = null THEN EmptyObject ELSE customizations
      Or(k, default) == IF Has(given, k) /\ given[k] # "" THEN given[k] ELSE default
      project ==
        [projectName |-> projectName,
         status |-> Or("status", template.defaultStatus),
         created |-> now,
         lastModified |-> now,
         summary |-> Or("summary", template.name \o " project"),
         currentFocus |-> Or("currentFocus", ""),
         openTasks |-> <<>>,
         completedTasks |-> <<>>,
         keyDecisions |-> <<>>,
         milestones |-> <<>>,
         keyFiles |-> <<>>,
         metadata |-> JSONClone(template.structure.metadata)]
      replaced == [k \in DOMAIN project |->
                     IF k \in DOMAIN given /\ k # "metadata" THEN given[k] ELSE project[k]]
  IN  IF Has(given, "metadata")
      THEN [replaced EXCEPT !.metadata = Spread(project.metadata, given.metadata)]
      ELSE replaced

\* applyTemplate for a template of the map
applyTemplate(templateName, projectName, customizations) ==
  LET template == templates[templateName]
      given == IF customizations = null THEN EmptyObject ELSE customizations
      \* customizations?.k || default
      Or(k, default) == IF Has(given, k) /\ given[k] # "" THEN given[k] ELSE default
      project ==
        [projectName |-> projectName,
         status |-> Or("status", template.defaultStatus),
         created |-> now,
         lastModified |-> now,
         summary |-> Or("summary", template.name \o " project"),
         currentFocus |-> Or("currentFocus",
                            IF Len(template.structure.defaultTasks) > 0
                            THEN template.structure.defaultTasks[1]
                            ELSE ""),
         openTasks |-> template.structure.defaultTasks,
         completedTasks |-> <<>>,
         keyDecisions |-> <<>>,
         milestones |-> <<>>,
         keyFiles |-> <<>>,
         metadata |-> JSONClone(template.structure.metadata)]
      \* if (key in project && key !== 'metadata') project[key] = value
      replaced == [k \in DOMAIN project |->
                     IF k \in DOMAIN given /\ k # "metadata" THEN given[k] ELSE project[k]]
  IN  IF Has(given, "metadata")
      THEN [replaced EXCEPT !.metadata = Spread(project.metadata, given.metadata)]
      ELSE replaced

\* the templateName arguments: the five templates of the map, and a name
\* that is not in it
TemplateArgs == (DOMAIN templates) \cup {"game"}

\* the customizations argument of applyTemplate
Customizations ==
  { null,
    [summary |-> "My awesome application",
     metadata |-> [techStack |-> <<"TypeScript", "React", "Node.js">>]],
    [status |-> "", openTasks |-> <<"x">>],
    [owner |-> "me"] }

\* a call of applyTemplate on the template manager
ApplyTemplate(templateName, projectName, customizations) ==
  /\ lastCall' =
        Spread([op |-> "applyTemplate",
                templateName |-> templateName,
                projectName |-> projectName,
                customizations |-> customizations],
               IF templateName \notin DOMAIN templates
               THEN [outcome |-> "throw",
                     error |-> "Template '" \o templateName \o "' not found"]
               ELSE [outcome |-> "return",
                     result |-> applyTemplate(templateName, projectName, customizations)])
  /\ UNCHANGED <<currentProject, sessionContext, projectStack, pendingUpdates,
                 projectCache, now, uuidCount, calls, secureVars>>

\* projects are instantiated by the template manager and created by
\* switchProject
TemplateNext ==
  \/ \E templateName \in TemplateArgs, projectName \in ProjectNames,
        customizations \in Customizations :
       ApplyTemplate(templateName, projectName, customizations)
  \/ \E projectName \in ProjectNames, createIfNotExists \in BOOLEAN,
        template \in TemplateArgs \cup {undefined} :
       Call /\ SwitchProject(projectName, createIfNotExists, template, null)

TemplateSpec == Init /\ [][TemplateNext]_vars

(***************************************************************************)
(* semantic-router.ts.  A confidence is held in hundredths (0.95 is 95).   *)
(* A keyword score is held as its numerator: scoreKeywords divides every   *)
(* score of a message by the same Math.sqrt(words.length), and the         *)
(* comparisons below are made on the squares.                              *)
(***************************************************************************)
modes ==
  << "project_continuation", "project_management", "research", "analysis",
     "help", "tarot", "general_assistant" >>

\* String.prototype.replace(from, to) with a string pattern: the first
\* occurrence only
ReplaceFirst(str, from, to) ==
  IF ~StrIncludes(str, from) THEN str
  ELSE LET Occurs(i) == SubSeq(str, i, i + Len(from) - 1) = from
           first == CHOOSE i \in 1..(Len(str) - Len(from) + 1) :
                      Occurs(i) /\ \A j \in 1..(i - 1) : ~Occurs(j)
       IN  SubSeq(str, 1, first - 1) \o to \o SubSeq(str, first + Len(from), Len(str))

\* String.prototype.split(/\s+/), for a string whose white space is blanks
RECURSIVE SplitFrom(_, _, _)
SplitFrom(str, i, word) ==
  IF i > Len(str) THEN <<word>>
  ELSE IF CharAt(str, i) = " "
       THEN IF i > 1 /\ CharAt(str, i - 1) = " "
            THEN SplitFrom(str, i + 1, word)
            ELSE <<word>> \o SplitFrom(str, i + 1, "")
       ELSE SplitFrom(str, i + 1, word \o CharAt(str, i))
SplitWords(str) == SplitFrom(str, 1, "")

continuationSignals ==
  << "continue", "let's", "keep", "next", "now",
     "then", "also", "resume", "back to", "where were we" >>

projectKeywords ==
  << "project", "build", "create", "implement", "develop",
     "code", "fix", "debug", "feature", "bug", "deploy",
     "test", "refactor", "architecture", "design" >>
researchKeywords ==
  << "research", "learn", "explore", "investigate", "study",
     "how does", "what is", "explain", "understand", "compare",
     "pros and cons", "best practices", "tutorial" >>
analysisKeywords ==
  << "analyze", "analysis", "pattern", "insight", "trend",
     "connection", "relationship", "correlation", "statistics",
     "metrics", "performance", "optimize" >>
helpKeywords ==
  << "help", "how do i", "how to", "guide", "documentation",
     "confused", "stuck", "problem", "issue", "error" >>
tarotKeywords ==
  << "tarot", "reading", "spread", "cards", "divination",
     "fortune", "future", "guidance", "spiritual" >>

\* scoreKeywords: the score before the division by Math.sqrt(words.length)
RECURSIVE SumScores(_, _, _)
SumScores(message, words, keywords) ==
  IF Len(keywords) = 0 THEN 0
  ELSE (IF StrIncludes(keywords[1], " ")
        THEN (IF StrIncludes(message, keywords[1]) THEN 2 ELSE 0)
        ELSE (IF \E i \in 1..Len(words) : StrIncludes(words[i], keywords[1]) THEN 1 ELSE 0))
       + SumScores(message, words, Tail(keywords))
scoreKeywords(message, keywords) == SumScores(message, SplitWords(message), keywords)

\* the modes that calculateModeScores scores by keywords, in the order in
\* which it inserts them; general_assistant, inserted last, gets 0.1
scoredModes == <<"project_management", "research", "analysis", "help", "tarot">>
calculateModeScores(message) ==
  [project_management |-> scoreKeywords(message, projectKeywords),
   research |-> scoreKeywords(message, researchKeywords),
   analysis |-> scoreKeywords(message, analysisKeywords),
   help |-> scoreKeywords(message, helpKeywords),
   tarot |-> scoreKeywords(message, tarotKeywords)]

\* x / Math.sqrt(words) > hundredths / 100, for an integer x
Exceeds(x, hundredths, words) == x > 0 /\ 10000 * x * x > hundredths * hundredths * words

\* performClassification: the loop that finds the highest scoring mode
bestModeOf(scores, words) ==
  LET top == CHOOSE i \in 1..Len(scoredModes) :
               /\ \A j \in 1..Len(scoredModes) : scores[scoredModes[j]] <= scores[scoredModes[i]]
               /\ \A j \in 1..(i - 1) : scores[scoredModes[j]] < scores[scoredModes[i]]
      best == scores[scoredModes[top]]
  IN  IF best = 0 \/ 100 * best * best < words
      THEN "general_assistant"
      ELSE scoredModes[top]

calculateConfidence(scores, words, bestMode) ==
  IF bestMode = "general_assistant"
  THEN \* the margin of 0.1 over a lower score is not above 0.25
       45
  ELSE LET best == scores[bestMode]
           others == {scores[scoredModes[i]] : i \in 1..Len(scoredModes)} \ {best}
           other == IF others = {} THEN 0
                    ELSE CHOOSE x \in others : \A y \in others : y <= x
           \* values.filter(v => v !== bestScore) keeps the 0.1
           baseKept == 100 * best * best # words
           \* Math.max of the values kept is the 0.1
           secondIsBase == baseKept /\ 100 * other * other < words
           noSecond == ~baseKept /\ others = {}
           MarginAbove(h) == IF secondIsBase THEN Exceeds(best, h + 10, words)
                             ELSE Exceeds(best - other, h, words)
           relativeAbove2 == IF secondIsBase THEN Exceeds(best, 22, words)
                             ELSE Exceeds(best - 2 * other, 2, words)
           relativeAbove1_5 == IF secondIsBase THEN Exceeds(2 * best, 33, words)
                               ELSE Exceeds(2 * best - 3 * other, 3, words)
       IN  IF noSecond THEN 60
           ELSE IF MarginAbove(100) /\ relativeAbove2 THEN 90
           ELSE IF MarginAbove(50) /\ relativeAbove1_5 THEN 75
           ELSE IF MarginAbove(25) THEN 60
           ELSE 45

\* a test that takes every context for one with a last project
hasContext(context) == TRUE

\* context?.lastProject
hasLastProject(context) ==
  context # null /\ Has(context, "lastProject") /\ context.lastProject # ""

\* performClassification: the explicit mode switch
explicitSwitch(messageLower) ==
  IF StrIncludes(messageLower, "switch to")
  THEN SelectSeq(modes, LAMBDA mode : StrIncludes(messageLower, ReplaceFirst(mode, "_", " ")))
  ELSE <<>>

\* performClassification: the continuation signals
hasContinuationSignal(messageLower) ==
  \E i \in 1..Len(continuationSignals) : StrIncludes(messageLower, continuationSignals[i])

\* performClassification: the keyword scores
classifyByScores(messageLower) ==
  LET words == Len(SplitWords(messageLower))
      modeScores == calculateModeScores(messageLower)
      bestMode == bestModeOf(modeScores, words)
  IN  [mode |-> bestMode,
       confidence |-> calculateConfidence(modeScores, words, bestMode),
       reasoning |-> ""]

\* a classification that looks for the continuation signals first
performClassificationContinuationFirst(messageLower, context) ==
  IF hasLastProject(context) /\ hasContinuationSignal(messageLower)
  THEN [mode |-> "project_continuation",
        confidence |-> 85,
        reasoning |-> "Continuation signal detected with active project"]
  ELSE IF Len(explicitSwitch(messageLower)) > 0
  THEN [mode |-> explicitSwitch(messageLower)[1],
        confidence |-> 95,
        reasoning |-> "Explicit mode switch requested"]
  ELSE classifyByScores(messageLower)

performClassification(messageLower, context) ==
  IF Len(explicitSwitch(messageLower)) > 0
  THEN [mode |-> explicitSwitch(messageLower)[1],
        confidence |-> 95,
        reasoning |-> "Explicit mode switch requested"]
  ELSE IF hasLastProject(context) /\ hasContinuationSignal(messageLower)
  THEN [mode |-> "project_continuation",
        confidence |-> 85,
        reasoning |-> "Continuation signal detected with active project"]
  ELSE classifyByScores(messageLower)

keywordMap ==
  [project_management |-> <<"build", "create", "implement", "code", "fix">>,
   research |-> <<"learn", "explore", "how does", "what is">>,
   analysis |-> <<"analyze", "pattern", "insight", "trend">>,
   help |-> <<"help", "how do i", "guide">>,
   tarot |-> <<"tarot", "reading", "cards">>]

getDetectedKeywords(message, mode) ==
  LET messageLower == toLowerCase(message)
      keywords == IF mode \in DOMAIN keywordMap THEN keywordMap[mode] ELSE <<>>
  IN  SliceHead(SelectSeq(keywords, LAMBDA keyword : StrIncludes(messageLower, keyword)), 3)

generateReasoning(message, mode, confidence, context) ==
  LET keywords == getDetectedKeywords(message, mode)
      reasons ==
        (IF mode = "project_continuation" /\ hasLastProject(context)
         THEN <<"Detected continuation intent for project '"
                \o Get(context, "lastProject") \o "'">>
         ELSE <<>>)
        \o (IF Len(keywords) > 0
            THEN <<"Found " \o mode \o " indicators: " \o Join(keywords, ", ")>>
            ELSE <<>>)
        \o (IF confidence > 80
            THEN <<"High confidence based on clear intent signals">>
            ELSE IF confidence < 50
            THEN <<"Low confidence - consider clarifying intent">>
            ELSE <<>>)
        \o (IF context # null /\ Has(context, "conversationHistory")
               /\ Len(context.conversationHistory) > 0
            THEN <<"Considered conversation history for context">>
            ELSE <<>>)
  IN  Join(reasons, ". ")

classify(message, context) ==
  LET classification == performClassification(toLowerCase(message), context)
  IN  [classification EXCEPT
         !.reasoning = generateReasoning(message, classification.mode,
                                         classification.confidence, context)]

\* the messages that are classified: a request, a subject, and a remark
MessageHeads == {"", "switch to ", "Switch To ", "please switch to the "}
MessageSubjects ==
  { "", "research", "analysis mode", "project continuation", "project_continuation",
    "general assistant", "help", "tarot reading", "analysis and research" }
MessageTails == {"", " let's continue", " now build the code", " how does oauth work"}
Messages ==
  {head \o subject \o tail :
     head \in MessageHeads, subject \in MessageSubjects, tail \in MessageTails}

\* the context argument of classify
Contexts ==
  { null,
    [conversationHistory |-> <<>>],
    [lastProject |-> ""],
    [lastProject |-> "my-app"],
    [lastProject |-> "my-app",
     conversationHistory |-> <<[role |-> "user", content |-> "hello"]>>] }

\* classify(message, context) for every message and context of the model
ClassificationOf ==
  [message \in Messages, context \in Contexts |-> classify(message, context)]

\* a call of classify on the router
Classify(message, context) ==
  /\ lastCall' = [op |-> "classify",
                  message |-> message,
                  context |-> context,
                  outcome |-> "return",
                  result |-> ClassificationOf[message, context]]
  /\ UNCHANGED <<currentProject, sessionContext, projectStack, pendingUpdates,
                 projectCache, now, uuidCount, calls, secureVars>>

ClassifyNext ==
  \E message \in Messages, context \in Contexts : Classify(message, context)

ClassifySpec == Init /\ [][ClassifyNext]_vars

(***************************************************************************)
(* security/secure-config.ts, project-creator.ts and the secure session of *)
(* brain-manager-v2.ts.  sessions is the session table of the              *)
(* SecureConfigManager that BrainManagerV2 builds in its constructor,      *)
(* creatorSessions the table of the SecureConfigManager that the           *)
(* AutomatedProjectCreator builds in its own constructor.                  *)
(***************************************************************************)
MaxTokens == 2         \* sessions started

FourHours == 4 * 60 * 60 * 1000

\* crypto.randomBytes(32).toString('hex'): the n-th token handed out; no
\* token is handed out twice
randomToken(n) == "token-" \o ToString(n)

\* deriveKey: crypto.pbkdf2 rejects a password that is not a string
deriveKeyFails(password) == password = undefined

\* a session that is expired at the instant of its expiry
ExpiredAtExpiry(session) == now >= session.expiresAt

\* new Date() > session.expiresAt
Expired(session) == now > session.expiresAt

\* cleanExpiredSessions on a session table
cleanExpiredSessions(table) ==
  [t \in {t \in DOMAIN table : ~Expired(table[t])} |-> table[t]]

\* SecureConfigManager.startSecureSession on a session table: what it
\* returns and the table it leaves
startSecureSession(table, password) ==
  IF deriveKeyFails(password)
  THEN [result |-> [success |-> FALSE,
                    message |-> "Failed to start secure session. Invalid password?"],
        sessions |-> table]
  ELSE LET token == randomToken(tokenCount + 1)
           expiresAt == now + FourHours
       IN  [result |-> [success |-> TRUE,
                        token |-> token,
                        expiresAt |-> expiresAt,
                        message |-> "Secure session started. Token expires in 4 hours."],
            sessions |-> cleanExpiredSessions(
                           MapSet(table, token, [token |-> token,
                                                 expiresAt |-> expiresAt,
                                                 permissionLevel |-> "admin"]))]

\* SecureConfigManager.isSessionValid on a session table: what it returns
\* and the table it leaves
isSessionValid(table, token) ==
  IF token \notin DOMAIN table
  THEN [valid |-> FALSE, sessions |-> table]
  ELSE IF Expired(table[token])
  THEN [valid |-> FALSE, sessions |-> MapDelete(table, token)]
  ELSE [valid |-> TRUE, sessions |-> table]

InvalidSessionToken == [outcome |-> "throw", error |-> "Invalid or expired session token"]

\* the values the calls on the secure configuration are made with
Passwords == {"pw", undefined}
Tokens == {randomToken(n) : n \in 1..MaxTokens} \cup {"forged"}

\* secureConfig.startSecureSession(password)
SecureConfigStartSecureSession(password) ==
  LET started == startSecureSession(sessions, password)
  IN  /\ tokenCount < MaxTokens
      /\ sessions' = started.sessions
      /\ tokenCount' = IF started.result.success THEN tokenCount + 1 ELSE tokenCount
      /\ lastCall' = [op |-> "secureConfig.startSecureSession",
                      outcome |-> "return",
                      result |-> started.result]
      /\ UNCHANGED <<currentProject, sessionContext, projectStack, pendingUpdates,
                     projectCache, now, uuidCount, secureSessionToken, creatorSessions>>

\* secureConfig.isSessionValid(token)
IsSessionValid(token) ==
  LET checked == isSessionValid(sessions, token)
  IN  /\ sessions' = checked.sessions
      /\ lastCall' = [op |-> "secureConfig.isSessionValid",
                      token |-> token,
                      outcome |-> "return",
                      result |-> [success |-> checked.valid]]
      /\ UNCHANGED <<currentProject, sessionContext, projectStack, pendingUpdates,
                     projectCache, now, uuidCount, secureSessionToken, creatorSessions,
                     tokenCount>>

\* secureConfig.getSecureConfigInstructions(token, configKey)
GetSecureConfigInstructions(token, configKey) ==
  LET checked == isSessionValid(sessions, token)
      call == [op |-> "secureConfig.getSecureConfigInstructions", token |-> token]
  IN  /\ sessions' = checked.sessions
      /\ lastCall' =
           IF ~checked.valid
           THEN Spread(call, InvalidSessionToken)
           ELSE Spread(call,
                  [outcome |-> "return",
                   result |-> [success |-> TRUE,
                               instructions |->
                                 << stateGet("config", "secure/" \o configKey),
                                    [tool |-> "brain:state_get",
                                     args |-> [category |-> "config",
                                               key |-> "secure/" \o configKey \o "_metadata"],
                                     description |-> "Get encryption metadata for "
                                                     \o configKey] >>]])
      /\ UNCHANGED <<currentProject, sessionContext, projectStack, pendingUpdates,
                     projectCache, now, uuidCount, secureSessionToken, creatorSessions,
                     tokenCount>>

\* secureConfig.getSaveSecureConfigInstructions(token, configKey, encryptedData)
GetSaveSecureConfigInstructions(token, configKey, encryptedData) ==
  LET checked == isSessionValid(sessions, token)
      call == [op |-> "secureConfig.getSaveSecureConfigInstructions", token |-> token]
  IN  /\ sessions' = checked.sessions
      /\ lastCall' =
           IF ~checked.valid
           THEN Spread(call, InvalidSessionToken)
           ELSE Spread(call,
                  [outcome |-> "return",
                   result |-> [success |-> TRUE,
                               instructions |->
                                 << stateSet("config", "secure/" \o configKey, encryptedData),
                                    stateSet("config", "secure/" \o configKey \o "_metadata",
                                             [encrypted |-> TRUE,
                                              algorithm |-> "aes-256-gcm",
                                              lastModified |-> now]) >>]])
      /\ UNCHANGED <<currentProject, sessionContext, projectStack, pendingUpdates,
                     projectCache, now, uuidCount, secureSessionToken, creatorSessions,
                     tokenCount>>

\* BrainManagerV2.startSecureSession(password)
StartSecureSession(password) ==
  LET started == startSecureSession(sessions, password)
      result == started.result
  IN  /\ tokenCount < MaxTokens
      /\ sessions' = started.sessions
      /\ tokenCount' = IF result.success THEN tokenCount + 1 ELSE tokenCount
      /\ secureSessionToken' = IF result.success /\ Has(result, "token") /\ result.token # ""
                               THEN result.token
                               ELSE secureSessionToken
      /\ lastCall' = [op |-> "startSecureSession",
                      outcome |-> "return",
                      result |-> IF Has(result, "expiresAt")
                                 THEN [success |-> result.success,
                                       message |-> result.message,
                                       expiresAt |-> result.expiresAt]
                                 ELSE [success |-> result.success,
                                       message |-> result.message]]
      /\ UNCHANGED <<currentProject, sessionContext, projectStack, pendingUpdates,
                     projectCache, now, uuidCount, creatorSessions>>

\* a ProjectConfiguration as brain:state_get returns it for
\* config/project_defaults (the fields that createProject reads outside the
\* text of the generated files)
ProjectDefaults ==
  [author |-> [name |-> "Bard", email |-> "bard@example.com", github_username |-> "bard"],
   tools |-> [package_manager |-> "uv"]]

\* the options and existingConfig arguments of createNewProject
CreationOptions == {null, [description |-> "demo"]}
ExistingConfigs == {null, ProjectDefaults}

\* getInitialTasks(projectType)
getInitialTasks(projectType) ==
  LET baseTasks == <<"Set up development environment",
                     "Create initial documentation",
                     "Configure CI/CD pipeline",
                     "Write initial tests">>
  IN  CASE projectType = "ml" ->
             baseTasks \o <<"Set up data pipeline", "Create model architecture",
                            "Implement training loop", "Set up experiment tracking">>
        [] projectType = "web" ->
             baseTasks \o <<"Design API endpoints", "Set up database models",
                            "Implement authentication", "Create API documentation">>
        [] projectType = "cli" ->
             baseTasks \o <<"Design command structure", "Implement argument parsing",
                            "Add help documentation", "Create example scripts">>
        [] OTHER -> baseTasks

\* getSecureSetupInstructions(options, config), without the text of the script
getSecureSetupInstructions(options, config) ==
  << [tool |-> "brain:brain_execute",
      args |-> [description |-> "Create GitHub repository (requires secure session)",
                language |-> "shell"],
      description |-> "Create GitHub repository with secure credentials"] >>

\* AutomatedProjectCreator.createProject(options, sessionToken, existingConfig):
\* what it returns and the session table it leaves; the instruction that
\* runs the setup commands is given without the text of the script
createProject(options, sessionToken, existingConfig) ==
  IF existingConfig = null
  THEN [result |-> [success |-> FALSE,
                    projectPath |-> "",
                    instructions |-> <<stateGet("config", "project_defaults")>>,
                    message |-> "Execute state_get to load configuration, then call again with existingConfig"],
        sessions |-> creatorSessions]
  ELSE LET config == existingConfig
           projectPath == "/Users/bard/Code/" \o options.name
           githubUrl == "https://github.com/" \o config.author.github_username
                        \o "/" \o options.name
           checked == IF sessionToken # undefined /\ sessionToken # ""
                      THEN isSessionValid(creatorSessions, sessionToken)
                      ELSE [valid |-> FALSE, sessions |-> creatorSessions]
           setup == [tool |-> "brain:brain_execute",
                     args |-> [description |-> "Create and set up project " \o options.name,
                               language |-> "shell"],
                     description |-> "Execute project setup for " \o options.name]
           summary == IF Get(options, "description") \notin {undefined, ""}
                      THEN options.description
                      ELSE (IF Get(options, "type") \notin {undefined, ""}
                            THEN options.type ELSE "Python") \o " project"
           template == IF Get(options, "template") \notin {undefined, ""}
                       THEN options.template
                       ELSE IF Get(options, "type") \notin {undefined, ""}
                       THEN options.type ELSE "python"
           record == [projectName |-> options.name,
                      status |-> "active",
                      created |-> now,
                      lastModified |-> now,
                      summary |-> summary,
                      currentFocus |-> "Initial setup",
                      openTasks |-> getInitialTasks(Get(options, "type")),
                      completedTasks |-> <<>>,
                      keyDecisions |-> <<>>,
                      milestones |-> <<>>,
                      keyFiles |-> <<projectPath \o "/README.md",
                                     projectPath \o "/pyproject.toml",
                                     projectPath \o "/.github/workflows/ci.yml">>,
                      metadata |-> [projectPath |-> projectPath,
                                    githubUrl |-> githubUrl,
                                    template |-> template,
                                    createdBy |-> "automated-project-creator"]]
       IN  [result |-> [success |-> TRUE,
                        projectPath |-> projectPath,
                        githubUrl |-> githubUrl,
                        instructions |->
                          <<setup>>
                          \o (IF checked.valid
                              THEN getSecureSetupInstructions(options, config)
                              ELSE <<>>)
                          \o <<stateSet("project", options.name, record)>>,
                        message |-> "Project " \o options.name
                                    \o " ready to create. Execute the instructions to complete setup."],
            sessions |-> checked.sessions]

\* BrainManagerV2.createNewProject(projectName, options, existingConfig)
CreateNewProject(projectName, options, existingConfig) ==
  LET given == IF options = null THEN EmptyObject ELSE options
      projectOptions == Spread([name |-> projectName], given)
      created == createProject(projectOptions,
                               IF secureSessionToken # "null" /\ secureSessionToken # ""
                               THEN secureSessionToken ELSE undefined,
                               existingConfig)
      result == created.result
      newProject ==
        [projectName |-> projectName,
         status |-> "active",
         created |-> now,
         lastModified |-> now,
         summary |-> IF Get(given, "description") \notin {undefined, ""}
                     THEN given.description
                     ELSE (IF Get(given, "type") \notin {undefined, ""}
                           THEN given.type ELSE "Python")
                          \o " project created with automated setup",
         currentFocus |-> "Initial development",
         openTasks |-> <<"Complete initial implementation",
                         "Write comprehensive tests",
                         "Create documentation",
                         "Set up deployment pipeline">>,
         completedTasks |-> <<"Project structure created",
                              "Development environment configured",
                              "Git repository initialized",
                              "CI/CD pipeline set up">>,
         keyDecisions |-> <<>>,
         milestones |-> <<[timestamp |-> now,
                           title |-> "Project Created",
                           description |-> "Automated project setup completed",
                           artifacts |-> <<"README.md", "pyproject.toml",
                                           ".github/workflows/ci.yml">>]>>,
         keyFiles |-> <<result.projectPath \o "/README.md",
                        result.projectPath \o "/pyproject.toml",
                        result.projectPath \o "/src/" \o projectName \o "/main.py">>,
         metadata |-> [createdBy |-> "automated-project-creator",
                       githubUrl |-> Get(result, "githubUrl"),
                       projectPath |-> result.projectPath]]
  IN  /\ creatorSessions' = created.sessions
      /\ IF result.success
         THEN /\ projectCache' = MapSet(projectCache, projectName, newProject)
              /\ currentProject' = newProject
         ELSE UNCHANGED <<projectCache, currentProject>>
      /\ lastCall' = [op |-> "createNewProject",
                      outcome |-> "return",
                      result |-> IF result.success
                                 THEN [success |-> TRUE,
                                       message |-> result.message,
                                       instructions |-> result.instructions,
                                       projectInfo |-> [path |-> result.projectPath,
                                                        githubUrl |-> result.githubUrl]]
                                 ELSE [success |-> FALSE,
                                       message |-> result.message,
                                       instructions |-> result.instructions]]
      /\ UNCHANGED <<sessionContext, projectStack, pendingUpdates, now, uuidCount,
                     secureSessionToken, sessions, tokenCount>>

\* the instants around the expiry of a session started at 0 or at 1
ExpiryInstants == {1, FourHours, FourHours + 1, FourHours + 2}

\* time passes until one of the instants
TickToExpiry ==
  /\ \E instant \in ExpiryInstants : instant > now /\ now' = instant
  /\ lastCall' = [op |-> "tick"]
  /\ UNCHANGED <<currentProject, sessionContext, projectStack, pendingUpdates,
                 projectCache, uuidCount, calls, secureVars>>

SecureNext ==
  \/ \E password \in Passwords : Call /\ SecureConfigStartSecureSession(password)
  \/ \E token \in Tokens : Call /\ IsSessionValid(token)
  \/ \E token \in Tokens, configKey \in {"api_keys"} :
       Call /\ GetSecureConfigInstructions(token, configKey)
  \/ \E token \in Tokens, configKey \in {"api_keys"},
          encryptedData \in {[encrypted |-> "00", iv |-> "01", tag |-> "02"]} :
       Call /\ GetSaveSecureConfigInstructions(token, configKey, encryptedData)
  \/ \E password \in Passwords : Call /\ StartSecureSession(password)
  \/ \E options \in CreationOptions, existingConfig \in ExistingConfigs :
       Call /\ CreateNewProject("A", options, existingConfig)
  \/ TickToExpiry

SecureSpec == Init /\ [][SecureNext]_vars

(***************************************************************************)
(* The propose / confirm workflow with modifications of every kind: a      *)
(* plain one, one with a secret, one under a sensitive key and one that    *)
(* renames the project.                                                    *)
(***************************************************************************)
CommitModifications ==
  { null,
    [currentFocus |-> "f2"],
    [currentFocus |-> Secret],
    [pwd |-> "x"],
    [projectName |-> "B"] }

\* validateForSensitiveData(modifications) for every modification of the model
ModificationValidationOf ==
  [modifications \in CommitModifications \ {null} |-> validateForSensitiveData(modifications)]

CommitNext ==
  \/ \E updates \in SweepPayloads :
       \E updateType \in TypesOf(updates) :
          Call /\ ProposeUpdate(updateType, updates, undefined)
  \/ \E updateId \in KnownIds, modifications \in CommitModifications :
       Call /\ ConfirmUpdate(updateId, modifications)
  \/ \E projectName \in ProjectNames :
       Call /\ SwitchProject(projectName, TRUE, undefined, null)

CommitSpec == Init /\ [][CommitNext]_vars

(***************************************************************************)
(* brain-manager-v2.ts: handleWorkflowCommand and planProjectCreation      *)
(***************************************************************************)
\* the last position of the run of characters of a class that starts at i
\* (i - 1 when there is none)
RECURSIVE RunEnd(_, _, _)
RunEnd(str, i, chars) ==
  IF i <= Len(str) /\ CharAt(str, i) \in chars THEN RunEnd(str, i + 1, chars) ELSE i - 1

\* ([\w-]+) at position i: the captured name, "" when there is no match
NameAt(str, i) ==
  LET end == RunEnd(str, i, WordChars \cup {"-"})
  IN  IF end < i THEN "" ELSE SubSeq(str, i, end)

\* the part of the two expressions that follows the keyword, matched at
\* position i: \s+([\w-]+), or \s+(?:project\s+)?([\w-]+)
NameAfter(str, i, optionalProject) ==
  LET whitespace == {" ", "\t", "\n"}
      spaces == RunEnd(str, i, whitespace)
      word == "project"
      afterWord == spaces + 1 + Len(word)
      spaces2 == RunEnd(str, afterWord, whitespace)
  IN  IF spaces < i THEN ""
      ELSE IF /\ optionalProject
              /\ afterWord - 1 <= Len(str)
              /\ toLowerCase(SubSeq(str, spaces + 1, afterWord - 1)) = word
              /\ spaces2 >= afterWord
              /\ NameAt(str, spaces2 + 1) # ""
      THEN NameAt(str, spaces2 + 1)
      ELSE NameAt(str, spaces + 1)

\* a keyword of the expression (flag i) at position i, and what follows it
MatchAt(str, i, keyword, optionalProject) ==
  IF /\ i + Len(keyword) - 1 <= Len(str)
     /\ toLowerCase(SubSeq(str, i, i + Len(keyword) - 1)) = keyword
  THEN NameAfter(str, i + Len(keyword), optionalProject)
  ELSE ""

\* command.match(/(?:k1|k2|...)\s+(?:project\s+)?([\w-]+)/i)[1]: the name
\* captured by the leftmost match, "" when the expression does not match
matchName(str, keywords, optionalProject) ==
  LET hits == {i \in 1..Len(str) :
                 \E k \in 1..Len(keywords) : MatchAt(str, i, keywords[k], optionalProject) # ""}
  IN  IF hits = {} THEN ""
      ELSE LET i == CHOOSE h \in hits : \A g \in hits : h <= g
               k == CHOOSE a \in 1..Len(keywords) :
                      /\ MatchAt(str, i, keywords[a], optionalProject) # ""
                      /\ \A b \in 1..(a - 1) : MatchAt(str, i, keywords[b], optionalProject) = ""
           IN  MatchAt(str, i, keywords[k], optionalProject)

switchKeywords == <<"switch to", "open project">>
createKeywords == <<"create", "new", "make", "set up">>

\* the conditions of the five if statements of handleWorkflowCommand
repositoryTrigger(lowerCommand) ==
  \/ StrIncludes(lowerCommand, "update repo")
  \/ StrIncludes(lowerCommand, "commit")
  \/ StrIncludes(lowerCommand, "push changes")

summaryTrigger(lowerCommand) ==
  \/ StrIncludes(lowerCommand, "summarize")
  \/ StrIncludes(lowerCommand, "summary")
  \/ StrIncludes(lowerCommand, "recap")

switchTrigger(lowerCommand) ==
  \/ StrIncludes(lowerCommand, "switch to")
  \/ StrIncludes(lowerCommand, "open project")

creationTrigger(lowerCommand) ==
  \/ StrIncludes(lowerCommand, "create project")
  \/ StrIncludes(lowerCommand, "new project")
  \/ StrIncludes(lowerCommand, "make project")
  \/ StrIncludes(lowerCommand, "set up project")

proceedTrigger(lowerCommand) ==
  /\ StrIncludes(lowerCommand, "proceed with")
  /\ (StrIncludes(lowerCommand, "project") \/ StrIncludes(lowerCommand, "creation"))

\* a handler that looks for the summary triggers first
decideActionSummaryFirst(command) ==
  LET lowerCommand == toLowerCase(command)
  IN  IF summaryTrigger(lowerCommand) THEN "generate_summary"
      ELSE IF repositoryTrigger(lowerCommand) THEN "repository_update"
      ELSE IF switchTrigger(lowerCommand) /\ matchName(command, switchKeywords, FALSE) # ""
      THEN "switch_project"
      ELSE IF creationTrigger(lowerCommand) /\ matchName(command, createKeywords, TRUE) # ""
      THEN "plan_project"
      ELSE IF proceedTrigger(lowerCommand) THEN "create_project"
      ELSE "unknown"

\* handleWorkflowCommand: the branch that the chain of if statements takes
decideAction(command) ==
  LET lowerCommand == toLowerCase(command)
  IN  IF repositoryTrigger(lowerCommand) THEN "repository_update"
      ELSE IF summaryTrigger(lowerCommand) THEN "generate_summary"
      ELSE IF switchTrigger(lowerCommand) /\ matchName(command, switchKeywords, FALSE) # ""
      THEN "switch_project"
      ELSE IF creationTrigger(lowerCommand) /\ matchName(command, createKeywords, TRUE) # ""
      THEN "plan_project"
      ELSE IF proceedTrigger(lowerCommand) THEN "create_project"
      ELSE "unknown"

\* planProjectCreation: the project type inferred from the command
suggestedTypeOf(lowerCommand) ==
  IF StrIncludes(lowerCommand, "mcp") THEN "mcp-tool"
  ELSE IF StrIncludes(lowerCommand, "cli") THEN "cli-tool"
  ELSE IF StrIncludes(lowerCommand, "web") THEN "web-app"
  ELSE IF StrIncludes(lowerCommand, "api") THEN "api"
  ELSE IF StrIncludes(lowerCommand, "library") \/ StrIncludes(lowerCommand, "lib") THEN "library"
  ELSE "general"

\* handleWorkflowCommand: the type override of a 'proceed with' command
typeOverride(lowerCommand, suggestedType) ==
  IF StrIncludes(lowerCommand, "as mcp") THEN "mcp-tool"
  ELSE IF StrIncludes(lowerCommand, "as cli") THEN "cli-tool"
  ELSE IF StrIncludes(lowerCommand, "as web") THEN "web-app"
  ELSE IF StrIncludes(lowerCommand, "as api") THEN "api"
  ELSE IF StrIncludes(lowerCommand, "as library") THEN "library"
  ELSE suggestedType

\* the commands of the model; the plans are all made for the project C, so
\* that the pending table never holds two plans
Commands ==
  { "Update repo",
    "commit and summarize",
    "recap",
    "summary, then switch to B",
    "switch to B",
    "Open Project A and create project C",
    "switch to",
    "switch to: create project C",
    "create project C",
    "make project C for the web api",
    "proceed with the new project C",
    "proceed with project creation",
    "proceed with creation as cli, private",
    "hello" }

\* what handleWorkflowCommand reads off each command
ParsedCommands ==
  [command \in Commands |->
     LET lowerCommand == toLowerCase(command)
     IN  [action |-> decideAction(command),
          switchName |-> matchName(command, switchKeywords, FALSE),
          createName |-> matchName(command, createKeywords, TRUE),
          suggestedType |-> suggestedTypeOf(lowerCommand),
          visibility |-> IF StrIncludes(lowerCommand, "private") THEN "private" ELSE "public",
          lowerCommand |-> lowerCommand]]

\* planProjectCreation: the entry stored in the pending table; the
\* confirmation prompt is the heading of the plan
projectPlan(projectName, suggestedType) ==
  [id |-> "project-plan-" \o projectName,
   type |-> "project-planning",
   timestamp |-> now,
   projectName |-> projectName,
   changesSummary |-> "Project creation planning",
   proposedContext |-> [projectName |-> projectName,
                        suggestedType |-> suggestedType,
                        timestamp |-> now,
                        status |-> "planning"],
   originalUpdates |-> [suggestedType |-> suggestedType],
   confirmationPrompt |-> "## Project Setup Plan: " \o projectName]

\* the keys of the pending plans
PlanKeys ==
  {key \in DOMAIN pendingUpdates :
     /\ Len(key) >= Len("project-plan-")
     /\ SubSeq(key, 1, Len("project-plan-")) = "project-plan-"
     /\ pendingUpdates[key].type = "project-planning"}

\* a project record that has the lists which the handlers read
HasLists(project) ==
  /\ Has(project, "openTasks")
  /\ Has(project, "completedTasks")
  /\ Has(project, "keyDecisions")
  /\ Has(project, "milestones")

\* handleWorkflowCommand(command).  The results of updateRepository,
\* generateProjectSummary and createProject are given without the
\* instructions of the protocols, which read the name of the project only.
HandleWorkflowCommand(command) ==
  LET call == [op |-> "handleWorkflowCommand", command |-> command]
      parsed == ParsedCommands[command]
      unchanged == UNCHANGED <<currentProject, sessionContext, projectStack, pendingUpdates,
                               projectCache>>
  IN  /\ UNCHANGED <<now, uuidCount, secureVars>>
      /\ CASE parsed.action = "repository_update" ->
                /\ unchanged
                /\ lastCall' =
                     IF currentProject = null
                     THEN Spread(call, [outcome |-> "throw",
                                        error |-> "No project loaded. Load a project first."])
                     ELSE Spread(call,
                            [outcome |-> "return",
                             result |-> [action |-> "repository_update",
                                         result |-> [success |-> TRUE,
                                                     projectName |-> currentProject.projectName]]])
           [] parsed.action = "generate_summary" ->
                /\ unchanged
                /\ lastCall' =
                     IF currentProject = null
                     THEN Spread(call, [outcome |-> "throw", error |-> "No project loaded."])
                     ELSE IF ~Has(currentProject, "openTasks")
                     THEN Spread(call, [outcome |-> "throw",
                                        error |-> "Cannot read properties of undefined (reading 'length')"])
                     ELSE Spread(call,
                            [outcome |-> "return",
                             result |-> [action |-> "generate_summary",
                                         result |-> [success |-> TRUE,
                                                     projectName |-> currentProject.projectName]]])
           [] parsed.action = "switch_project" ->
                LET projectName == parsed.switchName
                    project == MapGet(projectCache, projectName)
                IN  /\ currentProject # null => Len(projectStack) < MaxStack
                    /\ projectStack' = PushCurrent
                    /\ UNCHANGED <<sessionContext, pendingUpdates>>
                    /\ IF project = null
                       THEN /\ UNCHANGED <<currentProject, projectCache>>
                            /\ lastCall' = Spread(call,
                                 [outcome |-> "return",
                                  result |-> [action |-> "switch_project",
                                              result |-> [success |-> FALSE,
                                                          message |-> "Project '" \o projectName
                                                            \o "' not in cache. Execute the instruction to load it.",
                                                          instructions |->
                                                            <<stateGet("project", projectName)>>]]])
                       ELSE /\ currentProject' = project
                            /\ projectCache' = MapSet(projectCache, projectName, project)
                            /\ lastCall' = Spread(call,
                                 [outcome |-> "return",
                                  result |-> [action |-> "switch_project",
                                              result |-> [success |-> TRUE,
                                                          project |-> project,
                                                          message |-> "Switched to project: "
                                                                      \o projectName,
                                                          instructions |-> <<>>]]])
           [] parsed.action = "plan_project" ->
                LET projectName == parsed.createName
                    plan == projectPlan(projectName, parsed.suggestedType)
                IN  /\ pendingUpdates' = MapSet(pendingUpdates, plan.id, plan)
                    /\ UNCHANGED <<currentProject, sessionContext, projectStack, projectCache>>
                    /\ lastCall' = Spread(call,
                         [outcome |-> "return",
                          result |-> [action |-> "plan_project",
                                      result |-> [projectName |-> projectName,
                                                  suggestedType |-> parsed.suggestedType,
                                                  setupPlan |-> plan.confirmationPrompt,
                                                  readyToProceed |-> FALSE]]])
           [] parsed.action = "create_project" ->
                IF PlanKeys = {}
                THEN /\ unchanged
                     /\ lastCall' = Spread(call,
                          [outcome |-> "throw",
                           error |-> "No pending project creation found. Use \"create project [name]\" first."])
                ELSE LET key == CHOOSE k \in PlanKeys : TRUE
                         plan == pendingUpdates[key]
                     IN  /\ pendingUpdates' = MapDelete(pendingUpdates, key)
                         /\ UNCHANGED <<currentProject, sessionContext, projectStack,
                                        projectCache>>
                         /\ lastCall' = Spread(call,
                              [outcome |-> "return",
                               result |-> [action |-> "create_project",
                                           result |-> [success |-> TRUE,
                                                       projectPath |-> "/Users/bard/Code/"
                                                                       \o plan.projectName,
                                                       projectType |->
                                                         typeOverride(parsed.lowerCommand,
                                                                      plan.originalUpdates.suggestedType),
                                                       visibility |-> parsed.visibility]]])
           [] OTHER ->
                /\ unchanged
                /\ lastCall' = Spread(call, [outcome |-> "throw",
                                             error |-> "Unknown workflow command: " \o command])

WorkflowNext ==
  \/ \E command \in Commands : Call /\ HandleWorkflowCommand(command)
  \/ \E updateId \in (DOMAIN pendingUpdates) \cup {"fake-id"}, modifications \in Modifications :
       Call /\ ConfirmUpdate(updateId, modifications)
  \/ \E updates \in SweepPayloads :
       \E updateType \in TypesOf(updates) :
          /\ currentProject # null => HasLists(currentProject)
          /\ Call
          /\ ProposeUpdate(updateType, updates, undefined)
  \/ \E projectName \in ProjectNames :
       Call /\ SwitchProject(projectName, TRUE, undefined, null)

WorkflowSpec == Init /\ [][WorkflowNext]_vars

\* the first of the five triggers whose keywords are in the command
FirstTriggerOf ==
  [command \in Commands |->
     LET lowerCommand == toLowerCase(command)
     IN  IF repositoryTrigger(lowerCommand) THEN "repository_update"
         ELSE IF summaryTrigger(lowerCommand) THEN "generate_summary"
         ELSE IF switchTrigger(lowerCommand) THEN "switch_project"
         ELSE IF creationTrigger(lowerCommand) THEN "plan_project"
         ELSE IF proceedTrigger(lowerCommand) THEN "create_project"
         ELSE "none"]

\* the same, with a project switch trigger that needs a project name after
\* its keyword
FirstTriggerWithNameOf ==
  [command \in Commands |->
     LET lowerCommand == toLowerCase(command)
     IN  IF repositoryTrigger(lowerCommand) THEN "repository_update"
         ELSE IF summaryTrigger(lowerCommand) THEN "generate_summary"
         ELSE IF switchTrigger(lowerCommand) /\ matchName(command, switchKeywords, FALSE) # ""
         THEN "switch_project"
         ELSE IF creationTrigger(lowerCommand) THEN "plan_project"
         ELSE IF proceedTrigger(lowerCommand) THEN "create_project"
         ELSE "none"]

(***************************************************************************)
(* Properties.                                                             *)
(***************************************************************************)
Returned == lastCall.op \notin {"constructor", "tick"} /\ lastCall.outcome = "return"
Threw == lastCall.op \notin {"constructor", "tick"} /\ lastCall.outcome = "throw"
Succeeded == Returned /\ lastCall.result.success
Failed == Returned /\ ~lastCall.result.success /\ lastCall.result.message # ""

\* C1: whatever the update type and the state of the manager, a
\* proposeUpdate whose raw payload fails validateForSensitiveData throws,
\* adds nothing to the pending table and leaves currentProject,
\* projectCache, sessionContext and projectStack as they were.
SensitiveDataGate ==
  [][lastCall'.op = "proposeUpdate"
     => \A updates \in SensitivePayloads, updateType \in AnyUpdateTypes,
           projectName \in TargetNames :
          ProposeUpdate(updateType, updates, projectName)
          => /\ Threw'
             /\ pendingUpdates' = pendingUpdates
             /\ UNCHANGED <<currentProject, projectCache, sessionContext, projectStack>>]_vars

\* a payload with a secret was proposed for a loaded project and refused
SensitiveDataRefused ==
  /\ lastCall.op = "proposeUpdate"
  /\ Threw
  /\ lastCall.error = "Security validation failed"
  /\ currentProject # null
  /\ uuidCount < MaxProposals

\* C2: a successful proposeUpdate changes only the pending table:
\* currentProject, projectCache, sessionContext and projectStack are the
\* same before and after the call, and the proposed record becomes the
\* current and the cached record when confirmUpdate is called with the id
\* of the proposal.
ProposedChangesRequireConfirmation ==
  [][/\ (lastCall'.op = "proposeUpdate" /\ Returned')
        => \A updates \in {lastCall'.result.originalUpdates}, projectName \in TargetNames :
             \A updateType \in {lastCall'.result.type} :
                ProposeUpdate(updateType, updates, projectName)
                => /\ UNCHANGED <<currentProject, projectCache, sessionContext, projectStack>>
                   /\ lastCall'.result.id \in DOMAIN pendingUpdates'
                   /\ pendingUpdates'[lastCall'.result.id] = lastCall'.result
                   /\ lastCall'.result.proposedContext =
                        ApplyUpdate(TargetProject(projectName), updateType, updates).context
     /\ lastCall'.op = "confirmUpdate"
        => \A updateId \in DOMAIN pendingUpdates :
             ConfirmUpdate(updateId, null)
             => /\ currentProject' = pendingUpdates[updateId].proposedContext
                /\ projectCache'[pendingUpdates[updateId].projectName]
                     = pendingUpdates[updateId].proposedContext]_vars

\* a proposal is pending whose open tasks are not those of the current project
ProposedChangePending ==
  /\ lastCall.op = "proposeUpdate"
  /\ Returned
  /\ currentProject # null
  /\ lastCall.result.projectName = currentProject.projectName
  /\ lastCall.result.proposedContext.openTasks # currentProject.openTasks
  /\ lastCall.result.id \in DOMAIN pendingUpdates

\* C3: after confirmUpdate(id, modifications) has succeeded for the pending
\* proposal p, currentProject and projectCache[p.projectName] are
\* p.proposedContext with the fields of modifications laid over it (and
\* p.proposedContext itself without modifications), id is not pending and
\* projectStack is unchanged.
ConfirmCommitsProposedContext ==
  [][\A updateId \in DOMAIN pendingUpdates, modifications \in Modifications :
       (/\ lastCall'.op = "confirmUpdate"
        /\ ConfirmUpdate(updateId, modifications)
        /\ Succeeded')
       => LET p == pendingUpdates[updateId]
              merged == IF modifications = null
                        THEN p.proposedContext
                        ELSE [k \in (DOMAIN p.proposedContext) \cup (DOMAIN modifications) |->
                                IF k \in DOMAIN modifications
                                THEN modifications[k]
                                ELSE p.proposedContext[k]]
          IN  /\ currentProject' = merged
              /\ projectCache'[p.projectName] = merged
              /\ updateId \notin DOMAIN pendingUpdates'
              /\ projectStack' = projectStack]_vars

\* a proposal was confirmed with modifications that replace a field of it
ConfirmedWithModifications ==
  /\ lastCall.op = "confirmUpdate"
  /\ Succeeded
  /\ currentProject.currentFocus = "f2"
  /\ Len(currentProject.openTasks) > 0
  /\ lastCall.updateId \notin DOMAIN pendingUpdates

ProposalsExpireAfterFiveMinutes ==
  [][\A updateId \in DOMAIN pendingUpdates, modifications \in Modifications :
       (/\ lastCall'.op = "confirmUpdate"
        /\ ConfirmUpdate(updateId, modifications)
        /\ now - pendingUpdates[updateId].timestamp >= FiveMinutes)
       => /\ Failed'
          /\ UNCHANGED <<currentProject, projectCache, sessionContext>>]_vars

\* C6: a 'progress' proposal with completedTasks = [t], for a task t that is
\* open in the target project, removes t from openTasks and keeps the order
\* of the other open tasks, has t in completedTasks, and leaves
\* keyDecisions, milestones and keyFiles as they are; confirmed without
\* modifications, this record is the current project.
CompletedTaskMoves ==
  [][/\ (lastCall'.op = "proposeUpdate" /\ Returned')
        => \A projectName \in TargetNames, updates \in {lastCall'.result.originalUpdates} :
          (/\ DOMAIN updates = {"completedTasks"}
           /\ Len(updates.completedTasks) = 1
           /\ ProposeUpdate("progress", updates, projectName)
           /\ Includes(TargetProject(projectName).openTasks, updates.completedTasks[1]))
          => LET t == updates.completedTasks[1]
                 before == TargetProject(projectName)
                 after == lastCall'.result.proposedContext
             IN  /\ ~Includes(after.openTasks, t)
                 /\ Includes(after.completedTasks, t)
                 /\ after.openTasks = SelectSeq(before.openTasks, LAMBDA x : x # t)
                 /\ after.keyDecisions = before.keyDecisions
                 /\ after.milestones = before.milestones
                 /\ after.keyFiles = before.keyFiles
     /\ lastCall'.op = "confirmUpdate"
        => \A updateId \in DOMAIN pendingUpdates :
             ConfirmUpdate(updateId, null)
             => currentProject' = pendingUpdates[updateId].proposedContext]_vars

\* the completion of the open task t1 was proposed and confirmed
CompletedTaskConfirmed ==
  /\ lastCall.op = "confirmUpdate"
  /\ Succeeded
  /\ sessionContext.lastActivity = "Completed 1 tasks"
  /\ currentProject.openTasks = <<"t2", "t3", "t4", "t5", "t6">>
  /\ currentProject.completedTasks = <<"t0", "t1">>
  /\ Len(currentProject.keyDecisions) = 3

\* C7: no record held as currentProject, in projectCache or as the
\* proposedContext of a pending proposal has a task both in openTasks and
\* in completedTasks.
OpenAndCompletedDisjoint ==
  LET Disjoint(rec) == \A i \in 1..Len(rec.openTasks) :
                          ~Includes(rec.completedTasks, rec.openTasks[i])
  IN  /\ currentProject # null => Disjoint(currentProject)
      /\ \A name \in DOMAIN projectCache : Disjoint(projectCache[name])
      /\ \A id \in DOMAIN pendingUpdates : Disjoint(pendingUpdates[id].proposedContext)

\* C8: switchProject pushes a copy of the current record; no proposeUpdate
\* and no confirmUpdate changes the stack; returnToPrevious makes the
\* record on top of the stack current.  So after switchProject(B), updates
\* of B and returnToPrevious, currentProject is the record that A was
\* when B was switched to.
SwitchAndReturnRestores ==
  [][/\ \A projectName \in ProjectNames, createIfNotExists \in BOOLEAN,
           template \in Templates, existingProjectData \in ExistingProjectData :
          (/\ lastCall'.op = "switchProject"
           /\ SwitchProject(projectName, createIfNotExists, template, existingProjectData)
           /\ currentProject # null)
          => /\ Len(projectStack') = Len(projectStack) + 1
             /\ Last(projectStack').project = currentProject
             /\ Front(projectStack') = projectStack
     /\ lastCall'.op \in {"proposeUpdate", "confirmUpdate"} => projectStack' = projectStack
     /\ (lastCall'.op = "returnToPrevious" /\ ReturnToPrevious /\ Len(projectStack) > 0)
          => /\ Succeeded'
             /\ currentProject' = Last(projectStack).project
             /\ lastCall'.result.project = Last(projectStack).project]_vars

\* A was left for B, a decision was confirmed for B, and A was returned to
ReturnedAfterUpdateOfOther ==
  /\ lastCall.op = "returnToPrevious"
  /\ Succeeded
  /\ currentProject.projectName = "A"
  /\ "B" \in DOMAIN projectCache
  /\ projectCache["B"].projectName = "B"
  /\ Len(projectCache["B"].keyDecisions) > 0
  /\ sessionContext # null
  /\ sessionContext.lastProject = "B"

\* C9: at every step, for every cached project, the keyDecisions and the
\* milestones before the step are prefixes of those after the step.
DecisionsAndMilestonesAppendOnly ==
  [][\A name \in DOMAIN projectCache :
       LET IsPrefix(a, b) == Len(a) <= Len(b) /\ SubSeq(b, 1, Len(a)) = a
       IN  /\ name \in DOMAIN projectCache'
           /\ IsPrefix(projectCache[name].keyDecisions, projectCache'[name].keyDecisions)
           /\ IsPrefix(projectCache[name].milestones, projectCache'[name].milestones)]_vars

\* C10 as stated: confirmUpdate with an id that is not pending,
\* returnToPrevious with an empty stack, and switchProject with
\* createIfNotExists = false to a project that is not cached each return
\* success = false with a message, and do not throw.
NotFoundIsAResult ==
  [][/\ \A updateId \in KnownIds, modifications \in Modifications :
          (/\ lastCall'.op = "confirmUpdate"
           /\ ConfirmUpdate(updateId, modifications)
           /\ updateId \notin DOMAIN pendingUpdates)
          => Failed'
     /\ (lastCall'.op = "returnToPrevious" /\ ReturnToPrevious /\ Len(projectStack) = 0)
          => Failed'
     /\ \A projectName \in ProjectNames, template \in Templates,
           existingProjectData \in ExistingProjectData :
          (/\ lastCall'.op = "switchProject"
           /\ SwitchProject(projectName, FALSE, template, existingProjectData)
           /\ projectName \notin DOMAIN projectCache)
          => Failed']_vars

\* C10, amended: the same, for a switchProject that is given no project data.
NotFoundIsAResultWithoutData ==
  [][/\ \A updateId \in KnownIds, modifications \in Modifications :
          (/\ lastCall'.op = "confirmUpdate"
           /\ ConfirmUpdate(updateId, modifications)
           /\ updateId \notin DOMAIN pendingUpdates)
          => Failed'
     /\ (lastCall'.op = "returnToPrevious" /\ ReturnToPrevious /\ Len(projectStack) = 0)
          => Failed'
     /\ \A projectName \in ProjectNames, template \in Templates :
          (/\ lastCall'.op = "switchProject"
           /\ SwitchProject(projectName, FALSE, template, null)
           /\ projectName \notin DOMAIN projectCache)
          => Failed']_vars

\* a project is loaded, and a switch to a project that is not cached failed
SwitchToMissingProjectFailed ==
  /\ lastCall.op = "switchProject"
  /\ Failed
  /\ currentProject # null
  /\ "B" \notin DOMAIN projectCache

\* C11 as stated: a proposeUpdate made while no project is active and the
\* given name, if any, is not cached throws the 'no project loaded' error
\* and adds nothing to the pending table.
NoProjectLoadedIsThrown ==
  [][(lastCall'.op = "proposeUpdate" /\ currentProject = null)
     => \A updates \in Payloads, projectName \in TargetNames :
       \A updateType \in TypesOf(updates) :
          (/\ (projectName = undefined \/ projectName \notin DOMAIN projectCache)
           /\ ProposeUpdate(updateType, updates, projectName))
          => /\ Threw'
             /\ StrIncludes(lastCall'.error, "No project specified or loaded")
             /\ pendingUpdates' = pendingUpdates]_vars

\* C11, amended: the same, for a payload that passes the validation, which
\* proposeUpdate makes before it looks for the target.
NoProjectLoadedIsThrownForValidPayload ==
  [][(lastCall'.op = "proposeUpdate" /\ currentProject = null)
     => \A updates \in Payloads, projectName \in TargetNames :
       \A updateType \in TypesOf(updates) :
          (/\ ValidationOf[updates].isValid
           /\ (projectName = undefined \/ projectName \notin DOMAIN projectCache)
           /\ ProposeUpdate(updateType, updates, projectName))
          => /\ Threw'
             /\ StrIncludes(lastCall'.error, "No project specified or loaded")
             /\ pendingUpdates' = pendingUpdates
             /\ uuidCount' = uuidCount]_vars

\* an update was proposed before any project was loaded, and refused
ProposedWithoutProject ==
  /\ lastCall.op = "proposeUpdate"
  /\ Threw
  /\ StrIncludes(lastCall.error, "No project specified or loaded")
  /\ currentProject = null
  /\ DOMAIN pendingUpdates = {}

\* C12: a proposeUpdate that is given a projectName and returns a proposal
\* returns one whose projectName is the given name and whose proposedContext
\* is the update applied to the cached record of that name; the current
\* project is the target only of a call without projectName.
ExplicitNameIsTarget ==
  [][(lastCall'.op = "proposeUpdate" /\ Returned')
     => \A updates \in {lastCall'.result.originalUpdates}, projectName \in TargetNames :
       \A updateType \in {lastCall'.result.type} :
          ProposeUpdate(updateType, updates, projectName)
          => IF projectName # undefined
             THEN /\ lastCall'.result.projectName = projectName
                  /\ projectName \in DOMAIN projectCache
                  /\ lastCall'.result.proposedContext =
                       ApplyUpdate(projectCache[projectName], updateType, updates).context
             ELSE lastCall'.result.proposedContext =
                    ApplyUpdate(currentProject, updateType, updates).context]_vars

\* C13: a successful confirmUpdate returns two instructions: first
\* brain:state_set of category 'project', key the proposal's project name,
\* value the committed record; then brain:state_set of category 'system',
\* key 'last_session_context', value the new session context.  A failed
\* confirmUpdate returns no instruction.
ConfirmReturnsTwoInstructions ==
  [][\A updateId \in KnownIds, modifications \in Modifications :
       (lastCall'.op = "confirmUpdate" /\ ConfirmUpdate(updateId, modifications))
       => LET instructions == lastCall'.result.instructions
          IN  IF Succeeded'
              THEN /\ Len(instructions) = 2
                   /\ instructions[1].tool = "brain:state_set"
                   /\ instructions[1].args =
                        [category |-> "project",
                         key |-> pendingUpdates[updateId].projectName,
                         value |-> currentProject']
                   /\ instructions[1].args.value =
                        projectCache'[pendingUpdates[updateId].projectName]
                   /\ instructions[2].tool = "brain:state_set"
                   /\ instructions[2].args =
                        [category |-> "system",
                         key |-> "last_session_context",
                         value |-> sessionContext']
              ELSE instructions = <<>>]_vars

\* a confirmUpdate with modifications returned its two instructions
InstructionsOfModifiedCommit ==
  /\ lastCall.op = "confirmUpdate"
  /\ Succeeded
  /\ Len(lastCall.result.instructions) = 2
  /\ lastCall.result.instructions[1].args.value.currentFocus = "f2"
  /\ lastCall.result.instructions[2].args.value.lastProject = currentProject.projectName

\* C14: after a successful confirmUpdate the session context is computed
\* from the proposal and the committed record only: lastProject is the
\* proposal's project name, lastActivity its change summary, openTasks the
\* first min(5, n) open tasks of the committed record, keyDecisions the
\* decision texts of its last min(3, m) decisions.
SessionContextRebuiltFromCommit ==
  [][\A updateId \in DOMAIN pendingUpdates, modifications \in Modifications :
       (/\ lastCall'.op = "confirmUpdate"
        /\ ConfirmUpdate(updateId, modifications)
        /\ Succeeded')
       => LET p == pendingUpdates[updateId]
              committed == projectCache'[p.projectName]
              n == Len(committed.openTasks)
              m == Len(committed.keyDecisions)
              first == IF n < 5 THEN n ELSE 5
              last == IF m < 3 THEN m ELSE 3
          IN  /\ sessionContext'.lastProject = p.projectName
              /\ sessionContext'.lastActivity = p.changesSummary
              /\ sessionContext'.openTasks = [i \in 1..first |-> committed.openTasks[i]]
              /\ sessionContext'.keyDecisions =
                   [i \in 1..last |-> committed.keyDecisions[m - last + i].decision]]_vars

\* a record with more than 5 open tasks and more than 3 decisions was
\* committed over an older session context
SessionContextTruncated ==
  /\ lastCall.op = "confirmUpdate"
  /\ Succeeded
  /\ Len(currentProject.openTasks) > 5
  /\ Len(currentProject.keyDecisions) > 3
  /\ Len(sessionContext.openTasks) = 5
  /\ sessionContext.keyDecisions = <<"d00", "d000", "d1">>
  /\ uuidCount = 2
  /\ DOMAIN pendingUpdates = {}

\* C15: when proposeUpdate returns a proposal, the pending table holds that
\* proposal and no proposal created more than 5 minutes before the call,
\* and every proposal that was pending and is younger than 5 minutes is
\* still pending, unchanged.
LazySweep ==
  [][(lastCall'.op = "proposeUpdate" /\ Returned')
     => /\ lastCall'.result.id \in DOMAIN pendingUpdates'
        /\ lastCall'.result.id \notin DOMAIN pendingUpdates
        /\ pendingUpdates'[lastCall'.result.id] = lastCall'.result
        /\ lastCall'.result.timestamp = now
        /\ \A id \in DOMAIN pendingUpdates' :
             ~(now - pendingUpdates'[id].timestamp > FiveMinutes)
        /\ \A id \in DOMAIN pendingUpdates :
             now - pendingUpdates[id].timestamp < FiveMinutes
             => /\ id \in DOMAIN pendingUpdates'
                /\ pendingUpdates'[id] = pendingUpdates[id]]_vars

\* the second proposal was made more than 5 minutes after the first, which
\* it swept
OldProposalSwept ==
  /\ lastCall.op = "proposeUpdate"
  /\ Returned
  /\ uuidCount = 2
  /\ sessionContext = null
  /\ DOMAIN pendingUpdates = {randomUUID(2)}
  /\ now = FiveMinutes + 1
  /\ currentProject.created = FiveMinutes - 1

\* C16: for every template T of the map and every project name N,
\* applyTemplate(T, N) returns a record with projectName = N, the metadata
\* skeleton of T (with problemType = "" for 'ml'), the seed tasks of T as
\* openTasks (not empty for software, research, ml and writing) and empty
\* completedTasks, keyDecisions and milestones.  Given customizations, every
\* top-level field they name other than metadata has their value, and
\* metadata is the skeleton with their metadata laid over it.
TemplateInstantiation ==
  [][lastCall'.op = "applyTemplate"
     => \A templateName \in (DOMAIN templates) \cap {lastCall'.templateName},
           projectName \in ProjectNames \cap {lastCall'.projectName},
           customizations \in Customizations \cap {lastCall'.customizations} :
          ApplyTemplate(templateName, projectName, customizations)
          => LET project == lastCall'.result
                 skeleton == templates[templateName].structure.metadata
                 seed == templates[templateName].structure.defaultTasks
             IN  /\ Returned'
                 /\ project.projectName = projectName
                 /\ project.completedTasks = <<>>
                 /\ project.keyDecisions = <<>>
                 /\ project.milestones = <<>>
                 /\ customizations = null
                    => /\ project.metadata = skeleton
                       /\ project.openTasks = seed
                       /\ templateName = "ml"
                          => /\ "problemType" \in DOMAIN project.metadata
                             /\ project.metadata.problemType = ""
                             /\ project.openTasks[1] = "Define problem and success metrics"
                       /\ templateName \in {"software", "research", "ml", "writing"}
                          => Len(project.openTasks) >= 4
                 /\ customizations # null
                    => /\ \A k \in ((DOMAIN customizations) \cap (DOMAIN project)) \ {"metadata"} :
                            project[k] = customizations[k]
                       /\ "openTasks" \notin DOMAIN customizations => project.openTasks = seed
                       /\ IF "metadata" \in DOMAIN customizations
                          THEN /\ DOMAIN project.metadata =
                                    (DOMAIN skeleton) \cup (DOMAIN customizations.metadata)
                               /\ \A k \in DOMAIN project.metadata :
                                    project.metadata[k] =
                                      IF k \in DOMAIN customizations.metadata
                                      THEN customizations.metadata[k]
                                      ELSE skeleton[k]
                          ELSE project.metadata = skeleton]_vars

\* the 'ml' template was instantiated with a summary and a tech stack
MlTemplateInstantiated ==
  /\ lastCall.op = "applyTemplate"
  /\ Returned
  /\ lastCall.result.projectName = "B"
  /\ lastCall.result.status = "data_collection"
  /\ lastCall.result.summary = "My awesome application"
  /\ lastCall.result.metadata.problemType = ""
  /\ Len(lastCall.result.metadata.techStack) = 3
  /\ Len(lastCall.result.openTasks) = 5

\* C17: a project created by switchProject(name, true, template) has the
\* status, the metadata and the openTasks of applyTemplate(template, name).
CreatedProjectSeededFromTemplate ==
  [][lastCall'.op = "switchProject"
     => \A projectName \in ProjectNames, template \in DOMAIN templates :
          (/\ projectName \notin DOMAIN projectCache
           /\ SwitchProject(projectName, TRUE, template, null))
          => LET seeded == applyTemplate(template, projectName, null)
             IN  /\ Succeeded'
                 /\ currentProject'.status = seeded.status
                 /\ currentProject'.openTasks = seeded.openTasks
                 /\ "metadata" \in DOMAIN currentProject'
                 /\ currentProject'.metadata = seeded.metadata]_vars

\* C18: a template name that is not in the map never makes the creation of
\* a project fail: switchProject with createIfNotExists = true succeeds and
\* creates a record with empty task lists and no metadata of a template, and
\* applyTemplate returns such a record.
UnknownTemplateNeverFails ==
  [][/\ lastCall'.op = "switchProject"
        => \A projectName \in ProjectNames, template \in TemplateArgs \ DOMAIN templates :
             (/\ projectName \notin DOMAIN projectCache
              /\ SwitchProject(projectName, TRUE, template, null))
             => /\ Succeeded'
                /\ currentProject'.projectName = projectName
                /\ currentProject'.openTasks = <<>>
                /\ currentProject'.completedTasks = <<>>
                /\ "metadata" \notin DOMAIN currentProject'
     /\ lastCall'.op = "applyTemplate"
        => \A projectName \in ProjectNames, templateName \in TemplateArgs \ DOMAIN templates,
              customizations \in Customizations :
             ApplyTemplate(templateName, projectName, customizations)
             => /\ Returned'
                /\ lastCall'.result.openTasks = <<>>
                /\ lastCall'.result.completedTasks = <<>>]_vars

\* C19: whatever the context, a message that contains 'switch to' and the
\* name of a mode, its underscore written as a blank, is classified as the
\* first such mode in the order of the modes, with confidence 0.95.
ExplicitSwitchHasPriority ==
  [][lastCall'.op = "classify"
     => \A message \in Messages \cap {lastCall'.message},
           context \in Contexts \cap {lastCall'.context} :
          Classify(message, context)
          => LET lower == toLowerCase(message)
                 spoken == << "project continuation", "project management", "research",
                              "analysis", "help", "tarot", "general assistant" >>
                 named == {i \in 1..7 : StrIncludes(lower, spoken[i])}
             IN  (StrIncludes(lower, "switch to") /\ named # {})
                 => /\ \E i \in named :
                         /\ \A j \in named : i <= j
                         /\ lastCall'.result.mode = modes[i]
                    /\ lastCall'.result.confidence = 95]_vars

\* with a last project in the context, a message that asks for the research
\* mode and goes on with a continuation phrase was classified as research
SwitchWonOverContinuation ==
  /\ lastCall.op = "classify"
  /\ lastCall.message = "switch to analysis and research let's continue"
  /\ lastCall.context # null
  /\ "lastProject" \in DOMAIN lastCall.context
  /\ lastCall.context.lastProject = "my-app"
  /\ lastCall.result.mode = "research"
  /\ lastCall.result.confidence = 95

\* C20: with a last project in the context, a message that contains a
\* continuation phrase and no explicit mode switch is classified as
\* 'project_continuation' with confidence 0.85, whatever keywords it
\* contains; without a last project in the context, no message is
\* classified as 'project_continuation' unless it contains 'switch to' and
\* 'project continuation'.  (A last project that is the empty string is no
\* last project.)
ContinuationNeedsLastProject ==
  [][lastCall'.op = "classify"
     => \A message \in Messages \cap {lastCall'.message},
           context \in Contexts \cap {lastCall'.context} :
          Classify(message, context)
          => LET lower == toLowerCase(message)
                 spoken == << "project continuation", "project management", "research",
                              "analysis", "help", "tarot", "general assistant" >>
                 phrases == << "continue", "let's", "keep", "next", "now",
                               "then", "also", "resume", "back to", "where were we" >>
                 switched == /\ StrIncludes(lower, "switch to")
                             /\ \E i \in 1..7 : StrIncludes(lower, spoken[i])
                 continued == \E i \in 1..10 : StrIncludes(lower, phrases[i])
                 lastProjectSet == /\ context # null
                                   /\ "lastProject" \in DOMAIN context
                                   /\ context.lastProject # ""
             IN  /\ (lastProjectSet /\ continued /\ ~switched)
                    => /\ lastCall'.result.mode = "project_continuation"
                       /\ lastCall'.result.confidence = 85
                 /\ (~lastProjectSet /\ lastCall'.result.mode = "project_continuation")
                    => /\ StrIncludes(lower, "switch to")
                       /\ StrIncludes(lower, "project continuation")]_vars

\* with a last project in the context, a message with keywords of the
\* project management mode and the phrase 'now' was classified as a
\* continuation
ContinuationWonOverKeywords ==
  /\ lastCall.op = "classify"
  /\ lastCall.message = "help now build the code"
  /\ lastCall.context # null
  /\ "lastProject" \in DOMAIN lastCall.context
  /\ lastCall.context.lastProject = "my-app"
  /\ lastCall.result.mode = "project_continuation"
  /\ lastCall.result.confidence = 85

\* C22: a successful switchProject made while a project is active makes the
\* stack one deeper, one made while no project is active leaves the depth as
\* it is, and a successful returnToPrevious makes the stack one shallower
\* and the popped record current.  After the creation of two projects from
\* the empty state the second is current at depth 1, and after a
\* returnToPrevious the first is current at depth 0.
StackDepthFollowsSwitches ==
  /\ [][/\ (lastCall'.op = "switchProject" /\ Succeeded')
           => Len(projectStack') = Len(projectStack) + (IF currentProject # null THEN 1 ELSE 0)
        /\ (lastCall'.op = "returnToPrevious" /\ Succeeded')
           => /\ Len(projectStack') = Len(projectStack) - 1
              /\ currentProject' = Last(projectStack).project]_vars
  /\ [](LET created == \A name \in DOMAIN projectCache :
                          /\ projectCache[name].projectName = name
                          /\ projectCache[name].summary = ""
            first == CHOOSE name \in DOMAIN projectCache : name # currentProject.projectName
        IN  /\ (/\ calls = 2
                /\ Cardinality(DOMAIN projectCache) = 2
                /\ created)
               => /\ currentProject # null
                  /\ currentProject = projectCache[currentProject.projectName]
                  /\ Len(projectStack) = 1
                  /\ projectStack[1].project.projectName = first
            /\ (/\ calls = 3
                /\ Cardinality(DOMAIN projectCache) = 2
                /\ created
                /\ lastCall.op = "returnToPrevious"
                /\ Succeeded)
               => /\ Len(projectStack) = 0
                  /\ currentProject = lastCall.result.project
                  /\ currentProject = projectCache[currentProject.projectName])

\* two projects were created from the empty state and the first returned to
ReturnedToFirstCreated ==
  /\ calls = 3
  /\ lastCall.op = "returnToPrevious"
  /\ Succeeded
  /\ DOMAIN projectCache = {"A", "B"}
  /\ projectCache["B"].summary = ""
  /\ currentProject.projectName = "A"
  /\ currentProject.summary = ""
  /\ Len(projectStack) = 0

\* C25: a switchProject that returns success = false leaves currentProject,
\* projectStack and projectCache as they were before the call.
FailedSwitchChangesNothing ==
  [][(lastCall'.op = "switchProject" /\ Failed')
     => \A projectName \in ProjectNames \ DOMAIN projectCache :
          SwitchProject(projectName, FALSE, undefined, null)
          => UNCHANGED <<currentProject, projectStack, projectCache>>]_vars

\* C23: when a proposal for a project is confirmed after another proposal
\* for the same project was confirmed while it was pending, the record that
\* is committed has the effects of both: the completed tasks and the
\* decisions of the record committed first are in the record committed
\* second.
NoLostUpdate ==
  [][(lastCall'.op = "confirmUpdate" /\ Succeeded')
     => \A updateId \in (DOMAIN pendingUpdates) \cap {lastCall'.updateId} :
          LET p == pendingUpdates[updateId]
              first == projectCache[p.projectName]
              second == projectCache'[p.projectName]
          IN  (/\ sessionContext # null
               /\ sessionContext.lastProject = p.projectName
               /\ sessionContext.timestamp >= p.timestamp
               /\ p.projectName \in DOMAIN projectCache)
              => /\ \A i \in 1..Len(first.completedTasks) :
                      Includes(second.completedTasks, first.completedTasks[i])
                 /\ \A i \in 1..Len(first.keyDecisions) :
                      Includes(second.keyDecisions, first.keyDecisions[i])]_vars

\* C24: once confirmUpdate has committed an update to the project P, no
\* switchProject and no returnToPrevious takes a completed task or a
\* decision out of projectCache[P].
ConfirmedUpdateIsDurable ==
  [][(lastCall'.op \in {"switchProject", "returnToPrevious"} /\ sessionContext # null)
     => \A P \in (DOMAIN projectCache) \cap {sessionContext.lastProject} :
          /\ P \in DOMAIN projectCache'
          /\ \A i \in 1..Len(projectCache[P].completedTasks) :
               Includes(projectCache'[P].completedTasks, projectCache[P].completedTasks[i])
          /\ \A i \in 1..Len(projectCache[P].keyDecisions) :
               Includes(projectCache'[P].keyDecisions, projectCache[P].keyDecisions[i])]_vars

\* C28: every entry of projectCache is stored under its own projectName,
\* and when a project is current the cache holds that record under the
\* name of the project.
CacheKeyInvariant ==
  /\ \A k \in DOMAIN projectCache : projectCache[k].projectName = k
  /\ currentProject # null
     => /\ currentProject.projectName \in DOMAIN projectCache
        /\ projectCache[currentProject.projectName] = currentProject

\* C29: a createNewProject that is given a configuration, made while the
\* token that BrainManagerV2.startSecureSession stored belongs to a session
\* started less than 4 hours ago, returns the secure setup instruction
\* (the creation of the GitHub repository) among its instructions.
SecureSessionHonoured ==
  [][(lastCall'.op = "createNewProject" /\ Succeeded')
     => ((/\ secureSessionToken \in DOMAIN sessions
          /\ now < sessions[secureSessionToken].expiresAt)
         => \E i \in 1..Len(lastCall'.result.instructions) :
              lastCall'.result.instructions[i].description
                = "Create GitHub repository with secure credentials")]_vars

\* C30: the clock does not go back; a token enters the session table only
\* as the new token of a successful startSecureSession, with an expiry 4
\* hours later that never changes; it leaves the table only when the
\* time is later than its expiry, it does so whenever a call finds it
\* expired, and it never comes back.  isSessionValid(token) is true exactly
\* when the token is in the table and the time is not later than its
\* expiry, and getSecureConfigInstructions and
\* getSaveSecureConfigInstructions throw exactly when it is not.
SessionExpiry ==
  [][LET Valid(token) == /\ token \in DOMAIN sessions
                         /\ now <= sessions[token].expiresAt
         Issued == {randomToken(n) : n \in 1..tokenCount}
     IN  /\ now' >= now
         /\ (lastCall'.op = "secureConfig.startSecureSession" /\ Succeeded')
            => /\ lastCall'.result.token \notin Issued
               /\ lastCall'.result.token \in DOMAIN sessions'
               /\ lastCall'.result.expiresAt = now + FourHours
               /\ sessions'[lastCall'.result.token].expiresAt = now + FourHours
         /\ \A token \in Tokens :
              /\ (token \in DOMAIN sessions /\ token \notin DOMAIN sessions')
                 => now > sessions[token].expiresAt
              /\ (token \in DOMAIN sessions /\ token \in DOMAIN sessions')
                 => sessions'[token] = sessions[token]
              /\ (token \notin DOMAIN sessions /\ token \in DOMAIN sessions')
                 => /\ lastCall'.op \in {"secureConfig.startSecureSession", "startSecureSession"}
                    /\ Succeeded'
                    /\ token \notin Issued
                    /\ token = randomToken(tokenCount')
         /\ lastCall'.op = "secureConfig.isSessionValid"
            => /\ lastCall'.result.success = Valid(lastCall'.token)
               /\ lastCall'.token \in DOMAIN sessions' <=> Valid(lastCall'.token)
         /\ lastCall'.op \in {"secureConfig.getSecureConfigInstructions",
                              "secureConfig.getSaveSecureConfigInstructions"}
            => /\ Threw' <=> ~Valid(lastCall'.token)
               /\ Returned' <=> Valid(lastCall'.token)
               /\ Threw' => lastCall'.error = "Invalid or expired session token"
               /\ lastCall'.token \in DOMAIN sessions' <=> Valid(lastCall'.token)]_vars

\* the token of the session started at 0 was found expired one millisecond
\* after its expiry, and removed
ExpiredTokenRemoved ==
  /\ lastCall.op = "secureConfig.isSessionValid"
  /\ lastCall.token = randomToken(1)
  /\ ~lastCall.result.success
  /\ now = FourHours + 1
  /\ tokenCount = 1
  /\ randomToken(1) \notin DOMAIN sessions

\* C21 as stated: a handleWorkflowCommand whose command has the keywords of
\* no trigger throws an error that names the command and leaves
\* currentProject, projectStack, projectCache and pendingUpdates as they
\* were; otherwise the first trigger, in the order repository update,
\* summary, project switch, creation planning, proceed with creation, whose
\* keywords are in the command decides the action.
FirstTriggerDecides ==
  [][lastCall'.op = "handleWorkflowCommand"
     => LET command == lastCall'.command
            first == FirstTriggerOf[command]
        IN  IF first = "none"
            THEN /\ Threw'
                 /\ lastCall'.error = "Unknown workflow command: " \o command
                 /\ UNCHANGED <<currentProject, projectStack, projectCache, pendingUpdates>>
            ELSE /\ Returned' => lastCall'.result.action = first
                 /\ Threw' => ~StrIncludes(lastCall'.error, "Unknown workflow command")]_vars

\* C21, amended: the same, with a project switch trigger that matches only
\* when a project name follows 'switch to' or 'open project'; without the
\* name the later triggers are tried, and the command is unknown when none
\* of them matches.
FirstTriggerWithNameDecides ==
  [][lastCall'.op = "handleWorkflowCommand"
     => LET command == lastCall'.command
            first == FirstTriggerWithNameOf[command]
        IN  IF first = "none"
            THEN /\ Threw'
                 /\ lastCall'.error = "Unknown workflow command: " \o command
                 /\ UNCHANGED <<currentProject, projectStack, projectCache, pendingUpdates>>
            ELSE /\ Returned' => lastCall'.result.action = first
                 /\ Threw' => ~StrIncludes(lastCall'.error, "Unknown workflow command")]_vars

\* an unknown command was refused while a project was loaded and a plan for
\* a new project was pending
UnknownCommandRefused ==
  /\ lastCall.op = "handleWorkflowCommand"
  /\ Threw
  /\ lastCall.command = "hello"
  /\ lastCall.error = "Unknown workflow command: hello"
  /\ currentProject # null
  /\ "project-plan-C" \in DOMAIN pendingUpdates

\* C26: the record that a successful confirmUpdate stores in projectCache
\* and places in the brain:state_set instruction is the stored record with
\* a payload that passed validateForSensitiveData applied to it, overlaid
\* with modifications that are absent or pass validateForSensitiveData.
NoUnvalidatedCommit ==
  [][(lastCall'.op = "confirmUpdate" /\ Succeeded')
     => \A updateId \in (DOMAIN pendingUpdates) \cap {lastCall'.updateId},
           modifications \in CommitModifications :
          ConfirmUpdate(updateId, modifications)
          => LET p == pendingUpdates[updateId]
             IN  /\ ValidationOf[p.originalUpdates].isValid
                 /\ modifications # null => ModificationValidationOf[modifications].isValid
                 /\ projectCache'[p.projectName] = FinalContext(p, modifications)
                 /\ lastCall'.result.instructions[1].args.value
                      = FinalContext(p, modifications)]_vars

\* C27: a confirmUpdate with an id of the pending table either succeeds or
\* leaves currentProject, projectCache, sessionContext and the pending
\* table as they were, and currentProject is always null or a record with
\* the lists openTasks, completedTasks, keyDecisions and milestones.
ConfirmAllOrNothing ==
  /\ [][(lastCall'.op = "confirmUpdate" /\ lastCall'.updateId \in DOMAIN pendingUpdates)
        => \/ /\ Succeeded'
              /\ lastCall'.updateId \notin DOMAIN pendingUpdates'
           \/ UNCHANGED <<currentProject, projectCache, sessionContext, pendingUpdates>>]_vars
  /\ [](currentProject = null \/ HasLists(currentProject))

====
